---- MODULE Spec2Model ----
(***************************************************************************)
(* Model of the qsql SQL placeholder engine (pkg/qsql).                    *)
(*                                                                         *)
(* Go strings that end up in SQL text (fields, operators, paths,           *)
(* fragments, the rendered SQL) are sequences of one-character strings,    *)
(* so that trimming, joining, splitting and upper-casing are computed the  *)
(* way the code computes them.  Diagnostic messages are opaque strings.    *)
(*                                                                         *)
(* A Go function that mutates *execState and returns a string is an        *)
(* operator returning [ret |-> string, st |-> the state afterwards].       *)
(***************************************************************************)
EXTENDS Integers, Sequences, FiniteSets, TLC

VARIABLES
    engine,   \* the Engine: [template, rawSQL]
    result,   \* what the last Engine method call returned, and its input
    state,    \* an execState that template functions are called on directly
    before,   \* history: `state` as it was when the last function was called
    call,     \* history: the last direct function call and its return value
    procs,    \* the goroutines that call Execute on the Engine concurrently
              \* (or Boot on the DbService)
    dbsvc     \* the DbService: manager, bootErr, and its sync.Once

vars == <<engine, result, state, before, call, procs, dbsvc>>

----------------------------------------------------------------------------
(* Bounds *)

\* longest JSON array in a parameter document
MaxArr == 3
\* most condition arguments passed to one and/or call
MaxConds == 2
\* longest text handed to cleanSQL on its own
MaxText == 5
\* goroutines that share one Engine
NumGoroutines == 2
\* most calls of Boot on one DbService
MaxBootCalls == 3

----------------------------------------------------------------------------
(* strings *)

\* the characters strings.TrimSpace strips (ASCII part of unicode.IsSpace)
WhiteSpace == {" ", "\t", "\n", "\r", "\f"}

LowerLetters == <<"a","b","c","d","e","f","g","h","i","j","k","l","m",
                  "n","o","p","q","r","s","t","u","v","w","x","y","z">>
UpperLetters == <<"A","B","C","D","E","F","G","H","I","J","K","L","M",
                  "N","O","P","Q","R","S","T","U","V","W","X","Y","Z">>

UpperChar(c) ==
    IF \E i \in DOMAIN LowerLetters : LowerLetters[i] = c
    THEN UpperLetters[CHOOSE i \in DOMAIN LowerLetters : LowerLetters[i] = c]
    ELSE c

\* strings.ToUpper
ToUpper(s) == [i \in DOMAIN s |-> UpperChar(s[i])]

RECURSIVE TrimLeft(_)
TrimLeft(s) ==
    IF s # <<>> /\ Head(s) \in WhiteSpace THEN TrimLeft(Tail(s)) ELSE s

RECURSIVE TrimRight(_)
TrimRight(s) ==
    IF s # <<>> /\ s[Len(s)] \in WhiteSpace
    THEN TrimRight(SubSeq(s, 1, Len(s) - 1))
    ELSE s

\* strings.TrimSpace
TrimSpace(s) == TrimRight(TrimLeft(s))

\* strings.Join(elems, sep)
RECURSIVE Join(_, _)
Join(elems, sep) ==
    IF elems = <<>> THEN <<>>
    ELSE IF Len(elems) = 1 THEN elems[1]
    ELSE elems[1] \o sep \o Join(Tail(elems), sep)

\* the path components gjson walks: the path cut at every '.'
RECURSIVE SplitDots(_)
SplitDots(s) ==
    IF \E i \in DOMAIN s : s[i] = "."
    THEN LET i == CHOOSE k \in DOMAIN s :
                      s[k] = "." /\ \A j \in 1..(k - 1) : s[j] # "."
         IN  <<SubSeq(s, 1, i - 1)>> \o SplitDots(SubSeq(s, i + 1, Len(s)))
    ELSE <<s>>

\* number of '?' placeholders in a text
CountPlaceholders(s) == Cardinality({i \in DOMAIN s : s[i] = "?"})

----------------------------------------------------------------------------
(* JSON documents and Go values *)

\* gjson.Result of a parsed document: a tagged JSON value
JNull      == [t |-> "null", v |-> 0]
JBool(b)   == [t |-> "bool", v |-> b]
JNum(n)    == [t |-> "num",  v |-> n]
JStr(s)    == [t |-> "str",  v |-> s]
JArr(s)    == [t |-> "arr",  v |-> s]
JObj(f)    == [t |-> "obj",  v |-> f]

\* Go interface{} values: nil, bool, float64, string, []interface{},
\* map[string]interface{}, and the typed slices buildExpr also accepts
GoNil      == [t |-> "nil", v |-> 0]
GoSlice(s) == [t |-> "arr", v |-> s]

\* gjson Result.Value(): JSON null becomes nil, arrays and objects are
\* converted element by element, the other kinds keep their value
RECURSIVE Value(_)
Value(j) ==
    CASE j.t = "null" -> GoNil
      [] j.t = "arr"  -> [t |-> "arr", v |-> [i \in DOMAIN j.v |-> Value(j.v[i])]]
      [] j.t = "obj"  -> [t |-> "obj", v |-> [k \in DOMAIN j.v |-> Value(j.v[k])]]
      [] OTHER        -> j

Digits == <<"0","1","2","3","4","5","6","7","8","9">>

IsDigits(s) ==
    s # <<>> /\ \A i \in DOMAIN s : \E d \in DOMAIN Digits : Digits[d] = s[i]

RECURSIVE ParseIndex(_)
ParseIndex(s) ==
    IF s = <<>> THEN 0
    ELSE 10 * ParseIndex(SubSeq(s, 1, Len(s) - 1))
         + (CHOOSE d \in DOMAIN Digits : Digits[d] = s[Len(s)]) - 1

\* gjson Get on the components of a path: object members by key, array
\* elements by integer index; anything else does not exist
RECURSIVE Get(_, _)
Get(j, keys) ==
    IF keys = <<>> THEN [res |-> j, exists |-> TRUE]
    ELSE LET k == Head(keys) IN
         IF j.t = "obj" /\ k \in DOMAIN j.v
         THEN Get(j.v[k], Tail(keys))
         ELSE IF j.t = "arr" /\ IsDigits(k) /\ ParseIndex(k) < Len(j.v)
         THEN Get(j.v[ParseIndex(k) + 1], Tail(keys))
         ELSE [res |-> JNull, exists |-> FALSE]

----------------------------------------------------------------------------
(* execState and the template functions (funcs.go) *)

\* Execute's &execState{data: gjson.Parse(json), args: make(.., 0)}
NewExecState(data) ==
    [data |-> data, args |-> <<>>, errors |-> <<>>, validatorsErrors |-> <<>>]

addError(st, err) == [st EXCEPT !.errors = Append(@, err)]

\* addValidatorError changed to keep only the latest error
addValidatorErrorKeepsLatest(st, err) == [st EXCEPT !.validatorsErrors = <<err>>]

addValidatorError(st, err) == [st EXCEPT !.validatorsErrors = Append(@, err)]

\* getValueByPath changed to report a JSON null as a missing value
getValueByPathNullIsMissing(st, paths) ==
    LET path == Join(paths, <<".">>)
        r    == Get(st.data, SplitDots(path))
    IN  IF ~r.exists \/ r.res = JNull THEN [val |-> GoNil, ok |-> FALSE]
        ELSE [val |-> Value(r.res), ok |-> TRUE]

getValueByPath(st, paths) ==
    LET path == Join(paths, <<".">>)
        r    == Get(st.data, SplitDots(path))
    IN  IF ~r.exists THEN [val |-> GoNil, ok |-> FALSE]
        ELSE [val |-> Value(r.res), ok |-> TRUE]

getValueByPathForTemplate(st, paths) == getValueByPath(st, paths).val

\* valFunc changed to bind nothing when the path is missing
valFuncSkipMissing(st, paths) ==
    LET r == getValueByPath(st, paths)
    IN  [ret |-> <<"?">>, err |-> FALSE,
         st  |-> IF r.ok THEN [st EXCEPT !.args = Append(@, r.val)] ELSE st]

valFunc(st, paths) ==
    LET val == getValueByPath(st, paths).val
    IN  [ret |-> <<"?">>, err |-> FALSE,
         st  |-> [st EXCEPT !.args = Append(@, val)]]

OpIN         == <<"I","N">>
OpNOTIN      == <<"N","O","T"," ","I","N">>
OpBETWEEN    == <<"B","E","T","W","E","E","N">>
OpNOTBETWEEN == <<"N","O","T"," ","B","E","T","W","E","E","N">>

\* buildSqlPlaceholder changed to bind an IN list as one value
buildSqlPlaceholderInAsOne(st, field, op, values) ==
    LET upperOp == ToUpper(TrimSpace(op)) IN
    CASE upperOp \in {OpIN, OpNOTIN} ->
            [ret |-> field \o <<" ">> \o op \o <<" ", "(", "?", ")">>,
             st  |-> [st EXCEPT !.args = Append(@, GoSlice(values))]]
      [] upperOp \in {OpBETWEEN, OpNOTBETWEEN} ->
            IF Len(values) < 2
            THEN [ret |-> <<>>,
                  st  |-> addError(st, "between: not enough values")]
            ELSE [ret |-> field \o <<" ">> \o op
                          \o <<" ", "?", " ", "A", "N", "D", " ", "?">>,
                  st  |-> [st EXCEPT !.args = @ \o <<values[1], values[2]>>]]
      [] OTHER ->
            [ret |-> field \o <<" ">> \o op \o <<" ", "?">>,
             st  |-> [st EXCEPT !.args = Append(@, values[1])]]

\* buildSqlPlaceholder changed to treat BETWEEN with too few values like any
\* other operator
buildSqlPlaceholderBetweenUnchecked(st, field, op, values) ==
    LET upperOp == ToUpper(TrimSpace(op)) IN
    CASE upperOp \in {OpIN, OpNOTIN} ->
            LET placeholders == [i \in DOMAIN values |-> <<"?">>] IN
            [ret |-> field \o <<" ">> \o op \o <<" ", "(">>
                     \o Join(placeholders, <<",", " ">>) \o <<")">>,
             st  |-> [st EXCEPT !.args = @ \o values]]
      [] upperOp \in {OpBETWEEN, OpNOTBETWEEN} /\ Len(values) >= 2 ->
            [ret |-> field \o <<" ">> \o op
                     \o <<" ", "?", " ", "A", "N", "D", " ", "?">>,
             st  |-> [st EXCEPT !.args = @ \o <<values[1], values[2]>>]]
      [] OTHER ->
            [ret |-> field \o <<" ">> \o op \o <<" ", "?">>,
             st  |-> [st EXCEPT !.args = Append(@, values[1])]]

\* buildSqlPlaceholder changed to print the trimmed, upper-cased operator
buildSqlPlaceholderNormalisesOp(st, field, op, values) ==
    LET upperOp == ToUpper(TrimSpace(op)) IN
    CASE upperOp \in {OpIN, OpNOTIN} ->
            LET placeholders == [i \in DOMAIN values |-> <<"?">>] IN
            [ret |-> field \o <<" ">> \o op \o <<" ", "(">>
                     \o Join(placeholders, <<",", " ">>) \o <<")">>,
             st  |-> [st EXCEPT !.args = @ \o values]]
      [] upperOp \in {OpBETWEEN, OpNOTBETWEEN} ->
            IF Len(values) < 2
            THEN [ret |-> <<>>,
                  st  |-> addError(st, "between: not enough values")]
            ELSE [ret |-> field \o <<" ">> \o op
                          \o <<" ", "?", " ", "A", "N", "D", " ", "?">>,
                  st  |-> [st EXCEPT !.args = @ \o <<values[1], values[2]>>]]
      [] OTHER ->
            [ret |-> field \o <<" ">> \o upperOp \o <<" ", "?">>,
             st  |-> [st EXCEPT !.args = Append(@, values[1])]]

buildSqlPlaceholder(st, field, op, values) ==
    LET upperOp == ToUpper(TrimSpace(op)) IN
    CASE upperOp \in {OpIN, OpNOTIN} ->
            LET placeholders == [i \in DOMAIN values |-> <<"?">>] IN
            [ret |-> field \o <<" ">> \o op \o <<" ", "(">>
                     \o Join(placeholders, <<",", " ">>) \o <<")">>,
             st  |-> [st EXCEPT !.args = @ \o values]]
      [] upperOp \in {OpBETWEEN, OpNOTBETWEEN} ->
            IF Len(values) < 2
            THEN [ret |-> <<>>,
                  st  |-> addError(st, "between: not enough values")]
            ELSE [ret |-> field \o <<" ">> \o op
                          \o <<" ", "?", " ", "A", "N", "D", " ", "?">>,
                  st  |-> [st EXCEPT !.args = @ \o <<values[1], values[2]>>]]
      [] OTHER ->
            [ret |-> field \o <<" ">> \o op \o <<" ", "?">>,
             st  |-> [st EXCEPT !.args = Append(@, values[1])]]

\* the slice kinds of buildExpr's type switch
SliceTags == {"arr", "strs", "ints", "int64s"}

buildExpr(st, field, op, required, val) ==
    LET values == IF val.t \in SliceTags THEN val.v ELSE <<val>> IN
    IF Len(values) = 0
    THEN IF required
         THEN buildSqlPlaceholder(st, field, op, <<GoNil>>)
         ELSE [ret |-> <<>>, st |-> st]
    ELSE buildSqlPlaceholder(st, field, op, values)

\* exprRaw changed to record no diagnostic for a missing required value
exprRawNoMissingDiag(st, required, paths) ==
    LET field == IF Len(paths) > 0 THEN paths[1] ELSE <<>>
        op    == IF Len(paths) > 1 THEN paths[2] ELSE <<>>
    IN  IF Len(paths) < 1 THEN [ret |-> <<>>, st |-> st]
        ELSE IF Len(paths) < 3
        THEN buildExpr(addError(st, "expr: no values"), field, op, required, GoNil)
        ELSE LET r == getValueByPath(st, SubSeq(paths, 3, Len(paths)))
             IN  buildExpr(st, field, op, required, r.val)

exprRaw(st, required, paths) ==
    LET field == IF Len(paths) > 0 THEN paths[1] ELSE <<>>
        op    == IF Len(paths) > 1 THEN paths[2] ELSE <<>>
    IN  IF Len(paths) < 1 THEN [ret |-> <<>>, st |-> st]
        ELSE IF Len(paths) < 3
        THEN buildExpr(addError(st, "expr: no values"), field, op, required, GoNil)
        ELSE LET r  == getValueByPath(st, SubSeq(paths, 3, Len(paths)))
                 s1 == IF ~r.ok /\ required
                       THEN addError(st, "expr: no values") ELSE st
             IN  buildExpr(s1, field, op, required, r.val)

exprFunc(st, paths) == exprRaw(st, TRUE, paths)

\* optionalExprFunc changed to treat its value as required, like exprFunc
optionalExprFuncAsRequired(st, paths) == exprRaw(st, TRUE, paths)

optionalExprFunc(st, paths) == exprRaw(st, FALSE, paths)

\* andOrFunc changed to leave a single surviving condition unparenthesised
andOrFuncBareSingle(st, logic, conditions) ==
    LET trimmed == [i \in DOMAIN conditions |-> TrimSpace(conditions[i])]
        valid   == SelectSeq(trimmed, LAMBDA c : c # <<>>)
    IN  IF Len(valid) = 0
        THEN [ret |-> <<>>, st |-> addError(st, "and: no valid conditions")]
        ELSE IF Len(valid) = 1 THEN [ret |-> valid[1], st |-> st]
        ELSE [ret |-> <<"(">> \o Join(valid, <<" ">> \o logic \o <<" ">>) \o <<")">>,
              st  |-> st]

\* andOrFunc changed to join every condition, the blank ones too
andOrFuncKeepsBlank(st, logic, conditions) ==
    LET trimmed == [i \in DOMAIN conditions |-> TrimSpace(conditions[i])]
        valid   == SelectSeq(trimmed, LAMBDA c : c # <<>>)
    IN  IF Len(valid) = 0
        THEN [ret |-> <<>>, st |-> addError(st, "and: no valid conditions")]
        ELSE [ret |-> <<"(">> \o Join(trimmed, <<" ">> \o logic \o <<" ">>) \o <<")">>,
              st  |-> st]

andOrFunc(st, logic, conditions) ==
    LET trimmed == [i \in DOMAIN conditions |-> TrimSpace(conditions[i])]
        valid   == SelectSeq(trimmed, LAMBDA c : c # <<>>)
    IN  IF Len(valid) = 0
        THEN [ret |-> <<>>, st |-> addError(st, "and: no valid conditions")]
        ELSE [ret |-> <<"(">> \o Join(valid, <<" ">> \o logic \o <<" ">>) \o <<")">>,
              st  |-> st]

andFunc(st, funcName, conditions) == andOrFunc(st, <<"a","n","d">>, conditions)

orFunc(st, conditions) == andOrFunc(st, <<"o","r">>, conditions)

----------------------------------------------------------------------------
(* validators (funcs.go, error.go) *)

ErrValidatorRequired   == "required"
ErrValidatorTypeStr    == "str"
ErrValidatorTypeInt    == "int"
ErrValidatorTypeStrLen == "strLen"
ErrValidatorTypeArrLen == "arrLen"
ErrValidatorTypeReg    == "reg"

NewValidatorError(typ, fieldName, code, msg) ==
    [Type |-> typ, FieldName |-> fieldName, Code |-> code, Msg |-> msg, Paths |-> <<>>]

SetPaths(e, paths) == [e EXCEPT !.Paths = Join(paths, <<".">>)]

\* err := NewValidatorError(..); err.SetPaths(paths...);
\* state.addValidatorError(err); return ""
rejectValue(st, typ, fieldName, code, msg, paths) ==
    [ret |-> <<>>,
     st  |-> addValidatorError(st, SetPaths(NewValidatorError(typ, fieldName, code, msg), paths))]

\* val.(int64): no value decoded from JSON has this type (numbers are float64)
validatorIntFunc(st, fieldName, code, msg, paths) ==
    LET r == getValueByPath(st, paths) IN
    IF ~r.ok THEN [ret |-> <<>>, st |-> st]
    ELSE IF r.val.t # "int64"
    THEN rejectValue(st, ErrValidatorTypeInt, fieldName, code, msg, paths)
    ELSE [ret |-> <<>>, st |-> st]

\* val.(float64); the error is built with ErrValidatorTypeInt
validatorFloatFunc(st, fieldName, code, msg, paths) ==
    LET r == getValueByPath(st, paths) IN
    IF ~r.ok THEN [ret |-> <<>>, st |-> st]
    ELSE IF r.val.t # "num"
    THEN rejectValue(st, ErrValidatorTypeInt, fieldName, code, msg, paths)
    ELSE [ret |-> <<>>, st |-> st]

\* validatorRequiredFunc changed to reject a member that is null
validatorRequiredFuncRejectsNull(st, fieldName, code, msg, paths) ==
    LET r == getValueByPath(st, paths) IN
    IF ~r.ok \/ r.val = GoNil
    THEN rejectValue(st, ErrValidatorRequired, fieldName, code, msg, paths)
    ELSE [ret |-> <<>>, st |-> st]

validatorRequiredFunc(st, fieldName, code, msg, paths) ==
    LET r == getValueByPath(st, paths) IN
    IF ~r.ok
    THEN rejectValue(st, ErrValidatorRequired, fieldName, code, msg, paths)
    ELSE [ret |-> <<>>, st |-> st]

validatorStrFunc(st, fieldName, code, msg, paths) ==
    LET r == getValueByPath(st, paths) IN
    IF ~r.ok THEN [ret |-> <<>>, st |-> st]
    ELSE IF r.val.t # "str"
    THEN rejectValue(st, ErrValidatorTypeStr, fieldName, code, msg, paths)
    ELSE [ret |-> <<>>, st |-> st]

\* a *int is <<>> (nil) or <<n>>
validatorStrLenFunc(st, min, max, fieldName, code, msg, paths) ==
    LET r == getValueByPath(st, paths) IN
    IF ~r.ok THEN [ret |-> <<>>, st |-> st]
    ELSE IF r.val.t # "str"
    THEN rejectValue(st, ErrValidatorTypeStrLen, fieldName, code, msg, paths)
    ELSE LET l == Len(r.val.v) IN
         IF min # <<>> /\ l < min[1]
         THEN rejectValue(st, ErrValidatorTypeStrLen, fieldName, code, msg, paths)
         ELSE IF max # <<>> /\ l > max[1]
         THEN rejectValue(st, ErrValidatorTypeStrLen, fieldName, code, msg, paths)
         ELSE [ret |-> <<>>, st |-> st]

validatorArrLenFunc(st, min, max, fieldName, code, msg, paths) ==
    LET r == getValueByPath(st, paths) IN
    IF ~r.ok THEN [ret |-> <<>>, st |-> st]
    ELSE IF r.val.t # "arr"
    THEN rejectValue(st, ErrValidatorTypeArrLen, fieldName, code, msg, paths)
    ELSE LET l == Len(r.val.v) IN
         IF min # <<>> /\ l < min[1]
         THEN rejectValue(st, ErrValidatorTypeArrLen, fieldName, code, msg, paths)
         ELSE IF max # <<>> /\ l > max[1]
         THEN rejectValue(st, ErrValidatorTypeArrLen, fieldName, code, msg, paths)
         ELSE [ret |-> <<>>, st |-> st]

\* regular expressions: literal characters, an optional leading '^' and an
\* optional trailing '$', and '(' ')' groups; regexp.MustCompile panics on
\* a '(' that is never closed
CountChar(s, c) == Cardinality({i \in DOMAIN s : s[i] = c})

Compiles(pattern) == CountChar(pattern, "(") = CountChar(pattern, ")")

\* Regexp.MatchString for a pattern without groups
MatchString(pattern, v) ==
    LET fromStart == pattern # <<>> /\ pattern[1] = "^"
        p1        == IF fromStart THEN Tail(pattern) ELSE pattern
        toEnd     == p1 # <<>> /\ p1[Len(p1)] = "$"
        lit       == IF toEnd THEN SubSeq(p1, 1, Len(p1) - 1) ELSE p1
    IN  \E i \in 0..(Len(v) - Len(lit)) :
            /\ SubSeq(v, i + 1, i + Len(lit)) = lit
            /\ fromStart => i = 0
            /\ toEnd => i + Len(lit) = Len(v)

\* validatorRegFunc changed to reject a missing value like one that is not
\* a string
validatorRegFuncRejectsMissing(st, pattern, fieldName, code, msg, paths) ==
    LET r == getValueByPath(st, paths) IN
    IF r.val.t # "str"
    THEN [ret   |-> <<>>, panic |-> FALSE,
          st    |-> rejectValue(st, ErrValidatorTypeReg, fieldName, code, msg, paths).st]
    ELSE IF ~Compiles(pattern) THEN [ret |-> <<>>, st |-> st, panic |-> TRUE]
    ELSE IF ~MatchString(pattern, r.val.v)
    THEN [ret   |-> <<>>, panic |-> FALSE,
          st    |-> rejectValue(st, ErrValidatorTypeReg, fieldName, code, msg, paths).st]
    ELSE [ret |-> <<>>, st |-> st, panic |-> FALSE]

validatorRegFunc(st, pattern, fieldName, code, msg, paths) ==
    LET r == getValueByPath(st, paths) IN
    IF ~r.ok THEN [ret |-> <<>>, st |-> st, panic |-> FALSE]
    ELSE IF r.val.t # "str"
    THEN [ret   |-> <<>>, panic |-> FALSE,
          st    |-> rejectValue(st, ErrValidatorTypeReg, fieldName, code, msg, paths).st]
    ELSE IF ~Compiles(pattern) THEN [ret |-> <<>>, st |-> st, panic |-> TRUE]
    ELSE IF ~MatchString(pattern, r.val.v)
    THEN [ret   |-> <<>>, panic |-> FALSE,
          st    |-> rejectValue(st, ErrValidatorTypeReg, fieldName, code, msg, paths).st]
    ELSE [ret |-> <<>>, st |-> st, panic |-> FALSE]

----------------------------------------------------------------------------
(* parameter documents and call arguments *)

KeyP == <<"p">>
KeyX == <<"x">>

\* the array [1, 2, .., n]
NumArray(n) == JArr([i \in 1..n |-> JNum(i)])

\* the values the member p.x takes
XValues ==
    {JNull, JNum(5), JStr(<<"s">>), JStr(<<>>), JBool(FALSE)}
    \cup {NumArray(n) : n \in 0..MaxArr}
    \cup {JArr(<<JStr(<<"s">>), JNull>>), JObj(<<>>)}

\* {}, {"p": {}} and {"p": {"x": v}}
Docs ==
    {JObj(<<>>), JObj(KeyP :> JObj(<<>>))}
    \cup {JObj(KeyP :> JObj(KeyX :> v)) : v \in XValues}

\* path arguments: "p.x" in one segment, "p" "x" in two, and "p.z", which
\* no document has
PathPX  == << <<"p", ".", "x">> >>
PathP_X == << <<"p">>, <<"x">> >>
PathPZ  == << <<"p", ".", "z">> >>
ValuePaths == {PathPX, PathP_X, PathPZ}

\* the decimal text of a one-digit array index
IndexText(i) == <<Digits[i + 1]>>

\* paths into the array p.x: the first, second and one-past-the-bound
\* element, the index as a segment of its own or after a '.'
IndexPaths ==
    UNION {{<<KeyP, KeyX, IndexText(i)>>,
            <<KeyP \o <<".">> \o KeyX, IndexText(i)>>,
            <<KeyP \o <<".">> \o KeyX \o <<".">> \o IndexText(i)>>} : i \in {0, 1, MaxArr}}

\* the paths getValueByPath is called with
ResolverPaths == ValuePaths \cup IndexPaths \cup {<<>>, <<KeyP>>}

FieldA == <<"a">>

OpEQ == <<"=">>
Ops ==
    {OpEQ, <<"L","I","K","E">>, <<"l","i","k","e"," ">>,
     OpIN, <<"i","n">>, OpNOTIN, <<" ","N","o","t"," ","I","n">>,
     OpBETWEEN, <<"b","e","t","w","e","e","n"," ">>, OpNOTBETWEEN}

\* the argument lists expr/optExpr are called with after the state,
\* the malformed ones (fewer than 3) included
ExprArgs ==
    {<<>>, <<FieldA>>}
    \cup {<<FieldA, op>> : op \in Ops}
    \cup {<<FieldA, op>> \o vp : op \in Ops, vp \in ValuePaths}

\* condition fragments handed to and/or
FragA == <<"a", " ", "=", " ", "?">>
FragB == <<" ", "b", " ", ">", " ", "?", " ">>
FragC == <<"(", "c", ")">>
Frags == {<<>>, <<" ">>, FragA, FragB, FragC}

RECURSIVE SeqsUpTo(_, _)
SeqsUpTo(S, n) ==
    IF n = 0 THEN {<<>>}
    ELSE LET shorter == SeqsUpTo(S, n - 1)
         IN  shorter \cup {Append(q, x) : q \in {r \in shorter : Len(r) = n - 1}, x \in S}

CondLists == SeqsUpTo(Frags, MaxConds)

\* values buildExpr is handed directly, typed Go slices included
DirectValues ==
    {GoNil, [t |-> "num", v |-> 5], GoSlice(<<>>),
     [t |-> "strs", v |-> << [t |-> "str", v |-> <<"s">>], [t |-> "str", v |-> <<"t">>] >>],
     [t |-> "ints", v |-> << [t |-> "num", v |-> 1], [t |-> "num", v |-> 2], [t |-> "num", v |-> 3] >>],
     [t |-> "int64s", v |-> <<>>]}

\* an execState as a function finds it: fresh, or after an earlier required
\* expr on a missing path (one nil argument, one diagnostic)
PriorStates(data) ==
    {NewExecState(data),
     exprFunc(NewExecState(data), <<<<"z">>, OpEQ>> \o PathPZ).st,
     validatorRequiredFunc(NewExecState(data), <<"z">>, <<"c","0">>, <<"m","0">>, PathPZ).st}

\* the fieldName, code and msg the validators are called with
FieldNameF == <<"f">>
CodeC      == <<"c">>
MsgM       == <<"m">>
Labels     == <<FieldNameF, CodeC, MsgM>>

\* *int limits of the length validators: nil, 1 and 2
Limits == {<<>>, <<1>>, <<2>>}

\* patterns: "^s$", "s", "t", and "(" which does not compile
BadPattern == <<"(">>
Patterns == {<<"^", "s", "$">>, <<"s">>, <<"t">>, BadPattern}

NoCall == [fn |-> "none", args |-> <<>>, ret |-> <<>>, err |-> FALSE]

Called(fn, args, r) ==
    /\ call.fn = "none"
    /\ before' = state
    /\ state' = r.st
    /\ call' = [fn |-> fn, args |-> args, ret |-> r.ret, err |-> FALSE]
    /\ UNCHANGED <<engine, result, procs, dbsvc>>

\* a direct call that panicked: nothing is returned
Panicked(fn, args) ==
    /\ call.fn = "none"
    /\ before' = state
    /\ state' = state
    /\ call' = [fn |-> fn, args |-> args, ret |-> <<>>, err |-> TRUE]
    /\ UNCHANGED <<engine, result, procs, dbsvc>>

----------------------------------------------------------------------------
(* utils.go *)

\* strings.Split(s, "\n")
RECURSIVE SplitLines(_)
SplitLines(s) ==
    IF \E i \in DOMAIN s : s[i] = "\n"
    THEN LET i == CHOOSE k \in DOMAIN s :
                      s[k] = "\n" /\ \A j \in 1..(k - 1) : s[j] # "\n"
         IN  <<SubSeq(s, 1, i - 1)>> \o SplitLines(SubSeq(s, i + 1, Len(s)))
    ELSE <<s>>

HasDoubleSpace(s) == \E i \in 1..(Len(s) - 1) : s[i] = " " /\ s[i + 1] = " "

\* strings.ReplaceAll(s, "  ", " "): non-overlapping matches, left to right
RECURSIVE ReplaceDoubleSpaces(_)
ReplaceDoubleSpaces(s) ==
    IF Len(s) < 2 THEN s
    ELSE IF s[1] = " " /\ s[2] = " "
    THEN <<" ">> \o ReplaceDoubleSpaces(SubSeq(s, 3, Len(s)))
    ELSE <<s[1]>> \o ReplaceDoubleSpaces(Tail(s))

\* for strings.Contains(result, "  ") { result = ReplaceAll(..) }
RECURSIVE CollapseSpaces(_)
CollapseSpaces(s) ==
    IF HasDoubleSpace(s) THEN CollapseSpaces(ReplaceDoubleSpaces(s)) ELSE s

\* cleanSQL changed to replace double spaces in one pass only
cleanSQLSinglePass(sql) ==
    LET lines   == SplitLines(sql)
        trimmed == [i \in DOMAIN lines |-> TrimSpace(lines[i])]
        cleaned == SelectSeq(trimmed, LAMBDA line : line # <<>>)
    IN  TrimSpace(ReplaceDoubleSpaces(Join(cleaned, <<" ">>)))

\* cleanSQL changed to join the lines with nothing between them
cleanSQLJoinsLines(sql) ==
    LET lines   == SplitLines(sql)
        trimmed == [i \in DOMAIN lines |-> TrimSpace(lines[i])]
        cleaned == SelectSeq(trimmed, LAMBDA line : line # <<>>)
    IN  TrimSpace(CollapseSpaces(Join(cleaned, <<>>)))

cleanSQL(sql) ==
    LET lines   == SplitLines(sql)
        trimmed == [i \in DOMAIN lines |-> TrimSpace(lines[i])]
        cleaned == SelectSeq(trimmed, LAMBDA line : line # <<>>)
    IN  TrimSpace(CollapseSpaces(Join(cleaned, <<" ">>)))

\* isEmpty changed to count false as a value
isEmptyKeepsFalse(val) ==
    CASE val = GoNil -> TRUE
      [] val.t = "str" -> val.v = <<>>
      [] val.t \in SliceTags -> Len(val.v) = 0
      [] val.t = "obj" -> DOMAIN val.v = {}
      [] OTHER -> FALSE

\* isEmpty: nil, "", an empty slice or map, and false are empty; every
\* other value (a number, whatever it is) is not
isEmpty(val) ==
    CASE val = GoNil -> TRUE
      [] val.t = "str" -> val.v = <<>>
      [] val.t \in SliceTags -> Len(val.v) = 0
      [] val.t = "obj" -> DOMAIN val.v = {}
      [] val.t = "bool" -> ~val.v
      [] OTHER -> FALSE

----------------------------------------------------------------------------
(* templates: text/template with the delimiters { } and the FuncMap of     *)
(* Parse.  A template is a sequence of nodes [k, v]: k = "text" with the   *)
(* literal text, or k = "action" with a call whose result is printed.  A   *)
(* call is [f, a]: f = "lit" is a string constant a; "expr", "optExpr" and *)
(* "val" take string constants a; "and" and "or" take calls a, evaluated   *)
(* left to right before the function is applied.  The state argument (.)   *)
(* is implicit.  A node with k = "if" holds {if c} body {end}: the pipeline *)
(* c, a call of "not", "isEmpty" or "getValue", and the nodes of the body. *)

Lit(s)      == [f |-> "lit", a |-> s]
Fn(f, args) == [f |-> f, a |-> args]
Text(s)     == [k |-> "text", v |-> s]
Action(c)   == [k |-> "action", v |-> c]
IfNode(c, body) == [k |-> "if", v |-> [c |-> c, body |-> body]]

\* the '?' of a fragment, each tagged with the index in args of the argument
\* its call appended for it (0 for a '?' of literal text): history only
OwnPlaceholders(ret, st) == [i \in 1..CountPlaceholders(ret) |-> Len(st.args) + i]
LiteralPlaceholders(s)   == [i \in 1..CountPlaceholders(s) |-> 0]

RECURSIVE EvalCall(_, _), EvalArgs(_, _)

\* text/template evalCall: arguments first, in order, then the function;
\* a call with too few arguments, or one that panics, fails the execution
EvalCall(c, st) ==
    CASE c.f = "lit" ->
            [ret |-> c.a, st |-> st, fail |-> FALSE, ph |-> LiteralPlaceholders(c.a)]
      [] c.f = "expr" ->
            LET r == exprFunc(st, c.a)
            IN  [ret |-> r.ret, st |-> r.st, fail |-> FALSE, ph |-> OwnPlaceholders(r.ret, st)]
      [] c.f = "optExpr" ->
            LET r == optionalExprFunc(st, c.a)
            IN  [ret |-> r.ret, st |-> r.st, fail |-> FALSE, ph |-> OwnPlaceholders(r.ret, st)]
      [] c.f = "val" ->
            LET r == valFunc(st, c.a)
            IN  [ret |-> r.ret, st |-> r.st, fail |-> r.err, ph |-> OwnPlaceholders(r.ret, st)]
      [] c.f \in {"vInt", "vFloat", "vStr", "vRequired"} ->
            IF Len(c.a) < 3
            THEN [ret |-> <<>>, st |-> st, fail |-> TRUE, ph |-> <<>>]
            ELSE LET paths == SubSeq(c.a, 4, Len(c.a))
                     r == CASE c.f = "vInt"   -> validatorIntFunc(st, c.a[1], c.a[2], c.a[3], paths)
                            [] c.f = "vFloat" -> validatorFloatFunc(st, c.a[1], c.a[2], c.a[3], paths)
                            [] c.f = "vStr"   -> validatorStrFunc(st, c.a[1], c.a[2], c.a[3], paths)
                            [] OTHER          -> validatorRequiredFunc(st, c.a[1], c.a[2], c.a[3], paths)
                 IN  [ret |-> r.ret, st |-> r.st, fail |-> FALSE, ph |-> <<>>]
      [] c.f = "vReg" ->
            IF Len(c.a) < 4
            THEN [ret |-> <<>>, st |-> st, fail |-> TRUE, ph |-> <<>>]
            ELSE LET r == validatorRegFunc(st, c.a[1], c.a[2], c.a[3], c.a[4],
                                           SubSeq(c.a, 5, Len(c.a)))
                 IN  [ret |-> r.ret, st |-> r.st, fail |-> r.panic, ph |-> <<>>]
      [] c.f = "and" ->
            LET as == EvalArgs(c.a, st) IN
            IF Len(c.a) < 1 \/ as.fail
            THEN [ret |-> <<>>, st |-> st, fail |-> TRUE, ph |-> <<>>]
            ELSE LET r == andFunc(as.st, as.rets[1], Tail(as.rets))
                 IN  [ret |-> r.ret, st |-> r.st, fail |-> FALSE,
                      ph |-> Join([i \in 1..(Len(as.rets) - 1) |->
                                     IF TrimSpace(as.rets[i + 1]) = <<>> THEN <<>>
                                     ELSE as.phs[i + 1]], <<>>)]
      [] c.f = "or" ->
            LET as == EvalArgs(c.a, st) IN
            IF as.fail
            THEN [ret |-> <<>>, st |-> as.st, fail |-> TRUE, ph |-> <<>>]
            ELSE LET r == orFunc(as.st, as.rets)
                 IN  [ret |-> r.ret, st |-> r.st, fail |-> FALSE,
                      ph |-> Join([i \in DOMAIN as.rets |->
                                     IF TrimSpace(as.rets[i]) = <<>> THEN <<>>
                                     ELSE as.phs[i]], <<>>)]

EvalArgs(args, st) ==
    IF args = <<>> THEN [rets |-> <<>>, phs |-> <<>>, st |-> st, fail |-> FALSE]
    ELSE LET h == EvalCall(Head(args), st) IN
         IF h.fail THEN [rets |-> <<>>, phs |-> <<>>, st |-> h.st, fail |-> TRUE]
         ELSE LET t == EvalArgs(Tail(args), h.st)
              IN  [rets |-> <<h.ret>> \o t.rets, phs |-> <<h.ph>> \o t.phs,
                   st |-> t.st, fail |-> t.fail]

\* text/template's truth of a value: nil, false, 0, and an empty string,
\* slice or map are not true
IsTrue(val) ==
    CASE val = GoNil -> FALSE
      [] val.t = "bool" -> val.v
      [] val.t = "num" -> val.v # 0
      [] val.t = "obj" -> DOMAIN val.v # {}
      [] OTHER -> Len(val.v) > 0

\* the value of the pipeline of an {if}: getValue and isEmpty as Parse
\* registers them, not as text/template defines it
RECURSIVE EvalPipe(_, _)
EvalPipe(c, st) ==
    CASE c.f = "getValue" -> getValueByPathForTemplate(st, c.a)
      [] c.f = "isEmpty"  -> JBool(isEmpty(EvalPipe(c.a[1], st)))
      [] c.f = "not"      -> JBool(~IsTrue(EvalPipe(c.a[1], st)))

RECURSIVE Render(_, _)

\* the rest of the nodes after a node that gave h
RenderRest(h, rest) ==
    IF h.fail THEN [out |-> <<>>, st |-> h.st, fail |-> TRUE, ph |-> <<>>]
    ELSE LET t == Render(rest, h.st)
         IN  [out |-> h.out \o t.out, st |-> t.st, fail |-> t.fail,
              ph |-> h.ph \o t.ph]

\* one call printed by an action
Printed(h) == [out |-> h.ret, st |-> h.st, fail |-> h.fail, ph |-> h.ph]

\* template.Execute(&buf, state): the nodes in order, output appended to buf;
\* the body of an {if} only when its pipeline is true
Render(nodes, st) ==
    IF nodes = <<>> THEN [out |-> <<>>, st |-> st, fail |-> FALSE, ph |-> <<>>]
    ELSE LET n == Head(nodes) IN
         CASE n.k = "text" ->
                RenderRest([out |-> n.v, st |-> st, fail |-> FALSE,
                            ph |-> LiteralPlaceholders(n.v)], Tail(nodes))
           [] n.k = "action" ->
                RenderRest(Printed(EvalCall(n.v, st)), Tail(nodes))
           [] n.k = "if" ->
                IF IsTrue(EvalPipe(n.v.c, st))
                THEN RenderRest(Render(n.v.body, st), Tail(nodes))
                ELSE Render(Tail(nodes), st)

----------------------------------------------------------------------------
(* qsql.go: the Engine *)

\* a template text: ok says whether its actions are well-formed
Source(nodes) == [ok |-> TRUE, nodes |-> nodes]
EmptySource   == Source(<<>>)
\* "{" : an action that is never closed
BadSource     == [ok |-> FALSE, nodes |-> <<Text(<<"{">>)>>]

\* NewEngine(): &Engine{}
NewEngine == [template |-> <<>>, parsed |-> FALSE, rawSQL |-> EmptySource]

\* the names Parse registers with tmpl.Funcs
FuncMap ==
    {"expr", "optExpr", "and", "or", "val", "getValue", "isEmpty", "printf",
     "vInt", "vFloat", "vStr", "vReg", "vRequired"}

\* every function a call names is registered ("function not defined" is a
\* parse error of text/template)
RECURSIVE Defined(_)
Defined(c) ==
    \/ c.f = "lit"
    \/ /\ c.f \in FuncMap \cup {"not"}
       /\ c.f \in {"and", "or", "not", "isEmpty"} => \A i \in DOMAIN c.a : Defined(c.a[i])

\* the calls of a node, those of the body of an {if} included
RECURSIVE NodeDefined(_)
NodeDefined(n) ==
    CASE n.k = "text"   -> TRUE
      [] n.k = "action" -> Defined(n.v)
      [] n.k = "if"     -> /\ Defined(n.v.c)
                           /\ \A i \in DOMAIN n.v.body : NodeDefined(n.v.body[i])

\* tmpl.Parse(sqlTemplate) returns no error
Parses(sqlTemplate) ==
    /\ sqlTemplate.ok
    /\ \A i \in DOMAIN sqlTemplate.nodes : NodeDefined(sqlTemplate.nodes[i])

\* Parse changed to accept calls of functions it did not register
ParseCallAnyFunction(e, sqlTemplate) ==
    [engine |-> [template |-> IF sqlTemplate.ok THEN sqlTemplate.nodes ELSE <<>>,
                 parsed   |-> sqlTemplate.ok,
                 rawSQL   |-> sqlTemplate],
     result |-> [op |-> "Parse", err |-> ~sqlTemplate.ok, hadTemplate |-> e.parsed]]

\* Parse changed to keep the template it had when the new text does not
\* parse
ParseCallKeepsTemplate(e, sqlTemplate) ==
    [engine |-> [template |-> IF Parses(sqlTemplate) THEN sqlTemplate.nodes ELSE e.template,
                 parsed   |-> Parses(sqlTemplate) \/ e.parsed,
                 rawSQL   |-> sqlTemplate],
     result |-> [op |-> "Parse", err |-> ~Parses(sqlTemplate), hadTemplate |-> e.parsed]]

\* Parse: rawSQL is set first, then template and err from tmpl.Parse
\* (a nil template and the error when the text does not parse); history:
\* hadTemplate, whether the Engine held a template when Parse was called
ParseCall(e, sqlTemplate) ==
    [engine |-> [template |-> IF Parses(sqlTemplate) THEN sqlTemplate.nodes ELSE <<>>,
                 parsed   |-> Parses(sqlTemplate),
                 rawSQL   |-> sqlTemplate],
     result |-> [op |-> "Parse", err |-> ~Parses(sqlTemplate), hadTemplate |-> e.parsed]]

\* a paramsJSON string: a JSON text (given by the document it parses to) or
\* a text that is not JSON
ValidJSON(doc) == [valid |-> TRUE, doc |-> doc]
InvalidJSON    == [valid |-> FALSE, doc |-> JNull]

NilStmt == [isNil |-> TRUE]

\* history: the call before this one on the Engine was an Execute that
\* returned validator errors
LeftOver ==
    /\ result.op = "Execute"
    /\ result.err = "nil"
    /\ result.stmt.ValidatorsErrors # <<>>

\* Execute from the return of template.Execute on: r is what the rendering
\* left (output, state, whether it failed)
ExecuteReturn(e, paramsJSON, r) ==
    IF r.fail
    THEN [op |-> "Execute", input |-> paramsJSON, stmt |-> NilStmt,
          err |-> "template execute error", rendered |-> TRUE, ph |-> <<>>,
          leftover |-> LeftOver]
    ELSE [op |-> "Execute", input |-> paramsJSON,
          stmt |-> [RawSQL |-> e.rawSQL,
                    SQL |-> cleanSQL(r.out),
                    Args |-> r.st.args,
                    Errors |-> r.st.errors,
                    ValidatorsErrors |-> r.st.validatorsErrors],
          err |-> "nil", rendered |-> TRUE, ph |-> r.ph,
          leftover |-> LeftOver]

\* Execute changed to run the template without checking the JSON first
ExecuteCallUnchecked(e, paramsJSON) ==
    LET st0 == NewExecState(paramsJSON.doc)
        r   == Render(e.template, st0)
    IN  IF r.fail
        THEN [op |-> "Execute", input |-> paramsJSON, stmt |-> NilStmt,
              err |-> "template execute error", rendered |-> TRUE, ph |-> <<>>,
              leftover |-> LeftOver]
        ELSE [op |-> "Execute", input |-> paramsJSON,
              stmt |-> [RawSQL |-> e.rawSQL,
                        SQL |-> cleanSQL(r.out),
                        Args |-> r.st.args,
                        Errors |-> r.st.errors,
                        ValidatorsErrors |-> r.st.validatorsErrors],
              err |-> "nil", rendered |-> TRUE, ph |-> r.ph,
              leftover |-> LeftOver]

\* Execute changed to fail when the rendering recorded a diagnostic
ExecuteCallFailFast(e, paramsJSON) ==
    IF ~paramsJSON.valid
    THEN [op |-> "Execute", input |-> paramsJSON, stmt |-> NilStmt, err |-> "invalid JSON",
          rendered |-> FALSE, ph |-> <<>>,
          leftover |-> LeftOver]
    ELSE LET st0 == NewExecState(paramsJSON.doc)
             r   == Render(e.template, st0)
         IN  IF r.fail \/ r.st.errors # <<>>
             THEN [op |-> "Execute", input |-> paramsJSON, stmt |-> NilStmt,
                   err |-> "template execute error", rendered |-> TRUE, ph |-> <<>>,
              leftover |-> LeftOver]
             ELSE [op |-> "Execute", input |-> paramsJSON,
                   stmt |-> [RawSQL |-> e.rawSQL,
                             SQL |-> cleanSQL(r.out),
                             Args |-> r.st.args,
                             Errors |-> r.st.errors,
                             ValidatorsErrors |-> r.st.validatorsErrors],
                   err |-> "nil", rendered |-> TRUE, ph |-> r.ph,
              leftover |-> LeftOver]

\* Execute changed to keep one execState for the Engine: a call starts from
\* what the call before it left behind
ExecuteCallReusesState(e, paramsJSON) ==
    IF ~paramsJSON.valid
    THEN [op |-> "Execute", input |-> paramsJSON, stmt |-> NilStmt, err |-> "invalid JSON",
          rendered |-> FALSE, ph |-> <<>>,
          leftover |-> LeftOver]
    ELSE LET st0 == IF result.op = "Execute" /\ result.err = "nil"
                    THEN [data |-> paramsJSON.doc,
                          args |-> result.stmt.Args,
                          errors |-> result.stmt.Errors,
                          validatorsErrors |-> result.stmt.ValidatorsErrors]
                    ELSE NewExecState(paramsJSON.doc)
             r   == Render(e.template, st0)
         IN  IF r.fail
             THEN [op |-> "Execute", input |-> paramsJSON, stmt |-> NilStmt,
                   err |-> "template execute error", rendered |-> TRUE, ph |-> <<>>,
                   leftover |-> LeftOver]
             ELSE [op |-> "Execute", input |-> paramsJSON,
                   stmt |-> [RawSQL |-> e.rawSQL,
                             SQL |-> cleanSQL(r.out),
                             Args |-> r.st.args,
                             Errors |-> r.st.errors,
                             ValidatorsErrors |-> r.st.validatorsErrors],
                   err |-> "nil", rendered |-> TRUE, ph |-> r.ph,
                   leftover |-> LeftOver]

\* e.template.Execute on a nil template: a nil pointer dereference, so
\* Execute panics and returns nothing; history: hadTemplate, whether the
\* call before it was a Parse that replaced a template
ExecutePanicked(paramsJSON) ==
    [op |-> "Execute panicked", input |-> paramsJSON, stmt |-> NilStmt,
     err |-> "nil pointer dereference",
     hadTemplate |-> result.op = "Parse" /\ result.hadTemplate]

\* Execute: the returned (*SQLStmt, error), with history: the input, whether
\* the template was run, the placeholder tags of the rendered text, and
\* whether the call before it left validator errors
ExecuteCall(e, paramsJSON) ==
    IF ~paramsJSON.valid
    THEN [op |-> "Execute", input |-> paramsJSON, stmt |-> NilStmt, err |-> "invalid JSON",
          rendered |-> FALSE, ph |-> <<>>,
          leftover |-> LeftOver]
    ELSE IF ~e.parsed THEN ExecutePanicked(paramsJSON)
    ELSE ExecuteReturn(e, paramsJSON, Render(e.template, NewExecState(paramsJSON.doc)))

----------------------------------------------------------------------------
(* goroutines calling Execute on one Engine.  A goroutine is at pc "idle",  *)
(* "render" (inside template.Execute, about to run node idx, with its own   *)
(* state and buffer) or "done" (Execute returned ret).                      *)

Goroutines == 1..NumGoroutines

NoReturn == [stmt |-> NilStmt, err |-> "none"]

IdleProc ==
    [pc |-> "idle", input |-> InvalidJSON, st |-> NewExecState(JNull), buf |-> <<>>,
     idx |-> 0, overlapped |-> FALSE, ret |-> NoReturn]

IdleProcs == [g \in Goroutines |-> IdleProc]

\* NewDbService(): no manager (0), bootErr nil, a sync.Once that has not run
\* (done, and m, the goroutine holding its mutex, 0 for none); history:
\* inits counts the runs of boot, calls the calls of Boot, and ctx is the
\* context boot ran with
NewDbService ==
    [manager |-> 0, bootErr |-> "nil", done |-> FALSE, m |-> 0,
     inits |-> 0, calls |-> 0, ctx |-> "none"]

----------------------------------------------------------------------------
(* direct calls of the template functions on an execState *)

CallExpr == \E paths \in ExprArgs : Called("expr", paths, exprFunc(state, paths))

CallOptExpr == \E paths \in ExprArgs : Called("optExpr", paths, optionalExprFunc(state, paths))

CallVal == \E paths \in ValuePaths \cup {<<>>} : Called("val", paths, valFunc(state, paths))

\* and takes funcName first, then the conditions
CallAnd ==
    \E funcName \in Frags \cup {<<"a","n","d">>}, conds \in CondLists :
        Called("and", <<funcName>> \o conds, andFunc(state, funcName, conds))

CallOr == \E conds \in CondLists : Called("or", conds, orFunc(state, conds))

CallBuildExpr ==
    \E op \in {OpEQ, OpIN, OpBETWEEN}, required \in BOOLEAN, val \in DirectValues :
        Called("buildExpr", <<FieldA, op>>, buildExpr(state, FieldA, op, required, val))

CallGetValueByPath ==
    \E paths \in ResolverPaths :
        Called("getValueByPath", paths, [ret |-> getValueByPath(state, paths), st |-> state])

CallVInt ==
    \E paths \in ValuePaths :
        Called("vInt", Labels \o paths,
               validatorIntFunc(state, FieldNameF, CodeC, MsgM, paths))

CallVFloat ==
    \E paths \in ValuePaths :
        Called("vFloat", Labels \o paths,
               validatorFloatFunc(state, FieldNameF, CodeC, MsgM, paths))

CallVRequired ==
    \E paths \in ValuePaths :
        Called("vRequired", Labels \o paths,
               validatorRequiredFunc(state, FieldNameF, CodeC, MsgM, paths))

CallVStr ==
    \E paths \in ValuePaths :
        Called("vStr", Labels \o paths,
               validatorStrFunc(state, FieldNameF, CodeC, MsgM, paths))

CallVStrLen ==
    \E min \in Limits, max \in Limits, paths \in ValuePaths :
        Called("vStrLen", <<min, max>> \o Labels \o paths,
               validatorStrLenFunc(state, min, max, FieldNameF, CodeC, MsgM, paths))

CallVArrLen ==
    \E min \in Limits, max \in Limits, paths \in ValuePaths :
        Called("vArrLen", <<min, max>> \o Labels \o paths,
               validatorArrLenFunc(state, min, max, FieldNameF, CodeC, MsgM, paths))

CallVReg ==
    \E pattern \in Patterns, paths \in ValuePaths :
        LET r == validatorRegFunc(state, pattern, FieldNameF, CodeC, MsgM, paths) IN
        IF r.panic
        THEN Panicked("vReg", <<pattern>> \o Labels \o paths)
        ELSE Called("vReg", <<pattern>> \o Labels \o paths, r)

NoResult == [op |-> "none"]

InitCalls ==
    /\ engine = NewEngine
    /\ result = NoResult
    /\ \E data \in Docs : state \in PriorStates(data)
    /\ before = state
    /\ call = NoCall
    /\ procs = IdleProcs
    /\ dbsvc = NewDbService

NextCalls ==
    \/ CallExpr
    \/ CallOptExpr
    \/ CallVal
    \/ CallAnd
    \/ CallOr
    \/ CallBuildExpr
    \/ CallGetValueByPath
    \/ CallVInt
    \/ CallVFloat
    \/ CallVRequired
    \/ CallVStr
    \/ CallVStrLen
    \/ CallVArrLen
    \/ CallVReg

SpecCalls == InitCalls /\ [][NextCalls]_vars

----------------------------------------------------------------------------
(* cleanSQL called on its own *)

\* space, tab, line feed, carriage return, a letter and a placeholder
TextChars == {" ", "\t", "\n", "\r", "a", "?"}

Texts == SeqsUpTo(TextChars, MaxText)

CallCleanSQL ==
    /\ call.fn = "none"
    /\ \E sql \in Texts :
           Called("cleanSQL", <<sql>>, [ret |-> cleanSQL(sql), st |-> state])

InitClean ==
    /\ engine = NewEngine
    /\ result = NoResult
    /\ state = NewExecState(JObj(<<>>))
    /\ before = state
    /\ call = NoCall
    /\ procs = IdleProcs
    /\ dbsvc = NewDbService

NextClean == CallCleanSQL

SpecClean == InitClean /\ [][NextClean]_vars

----------------------------------------------------------------------------
(* the Engine's callers: Parse and Execute on one Engine *)

FieldB == <<"b">>

CallExprEq      == Fn("expr", <<FieldA, OpEQ>> \o PathPX)
CallExprIn      == Fn("expr", <<FieldB, OpIN>> \o PathP_X)
CallOptBetween  == Fn("optExpr", <<FieldA, <<"b","e","t","w","e","e","n">>>> \o PathPX)
CallExprMissing == Fn("expr", <<FieldB, <<"L","I","K","E">>>> \o PathPZ)
CallValX        == Fn("val", PathPX)
LitAnd          == Lit(<<"a","n","d">>)

\* calls printed on their own
LeafCalls ==
    {CallExprEq, CallExprIn, CallOptBetween, CallExprMissing, CallValX,
     Fn("expr", <<FieldA, OpBETWEEN>> \o PathPX),
     Fn("optExpr", <<FieldA, OpNOTIN>> \o PathPX),
     Fn("expr", <<FieldA, OpEQ>>), Fn("optExpr", <<>>), Fn("val", PathPZ)}

\* and/or groups over a few arguments, the empty group included
GroupArgs == {CallExprEq, CallExprIn, CallOptBetween, LitAnd, Lit(<<" ">>)}
Groups == {Fn(g, args) : g \in {"and", "or"}, args \in SeqsUpTo(GroupArgs, MaxConds)}

\* the nested groups of the tests and of the package documentation
NestedGroups ==
    {Fn("and", <<LitAnd, CallExprEq, Fn("or", <<CallExprIn, CallExprMissing>>)>>),
     Fn("or", <<Fn("and", <<LitAnd, CallExprEq, CallExprIn>>),
                Fn("and", <<LitAnd, CallOptBetween, CallExprMissing>>)>>),
     Fn("and", <<CallExprEq, Fn("or", <<CallExprIn, CallExprMissing>>)>>),
     Fn("or", <<Fn("or", <<CallOptBetween>>), Fn("and", <<LitAnd, Lit(<<" ">>)>>)>>),
     Fn("or", <<Fn("and", <<LitAnd, Fn("or", <<CallOptBetween, Fn("or", <<>>)>>), CallExprEq>>),
                CallExprIn>>)}

SelectWhere == <<"S", " ", "W", " ">>

\* validator calls on p.x and on the missing p.z
CallVRequiredZ == Fn("vRequired", Labels \o PathPZ)
CallVRequiredX == Fn("vRequired", Labels \o PathP_X)
CallVStrX      == Fn("vStr", Labels \o PathPX)
CallVIntX      == Fn("vInt", <<FieldA, CodeC, MsgM>> \o PathP_X)
CallVFloatX    == Fn("vFloat", <<FieldB, CodeC, MsgM>> \o PathPX)
CallVRegX      == Fn("vReg", <<<<"^", "s", "$">>>> \o Labels \o PathPX)
CallVRegBad    == Fn("vReg", <<BadPattern>> \o Labels \o PathPX)

\* templates that validate and select
ValidatorSources ==
    {Source(<<Text(SelectWhere), Action(CallVRequiredZ), Action(CallExprEq),
              Action(CallVStrX), Text(<<" ", "A", " ">>), Action(CallVIntX),
              Action(CallValX), Action(CallVFloatX)>>),
     Source(<<Action(CallVRegX), Action(CallVRequiredX), Text(SelectWhere),
              Action(CallExprIn)>>),
     Source(<<Action(CallVRequiredZ), Action(CallVRegBad), Text(SelectWhere),
              Action(CallExprEq)>>),
     Source(<<Text(SelectWhere),
              Action(Fn("or", <<CallVRequiredZ, CallExprEq, CallVStrX, CallExprMissing>>))>>),
     Source(<<Action(CallVRequiredZ), Action(CallVRequiredZ)>>)}

\* templates calling a function with too few arguments, or one that Parse
\* does not register
MalformedSources ==
    {Source(<<Text(SelectWhere), Action(Fn("vRequired", <<FieldNameF>>))>>),
     Source(<<Action(CallExprEq), Action(Fn("vReg", <<<<"s">>, FieldNameF, CodeC>>))>>),
     Source(<<Text(SelectWhere), Action(Fn("vStrLen", Labels \o PathPX))>>),
     Source(<<Text(SelectWhere),
              Action(Fn("and", <<LitAnd, CallExprEq, Fn("between", <<FieldA>> \o PathPX)>>))>>)}

\* {if not (isEmpty (getValue . "p.x"))} .. {end}
NotEmptyX == Fn("not", <<Fn("isEmpty", <<Fn("getValue", PathPX)>>)>>)

\* templates that prune a condition on p.x
PrunedSources ==
    {Source(<<Text(<<"S", " ", "W", " ", "1">>),
              IfNode(NotEmptyX, <<Text(<<" ", "A", " ">>), Action(CallExprEq)>>)>>),
     Source(<<Text(SelectWhere),
              IfNode(NotEmptyX, <<Action(CallExprMissing), Text(<<" ", "A", " ">>),
                                  Action(CallValX)>>),
              Action(CallExprIn)>>)}

Sources ==
    {EmptySource, BadSource}
    \cup ValidatorSources \cup MalformedSources \cup PrunedSources
    \cup {Source(<<Text(SelectWhere), Action(c)>>) : c \in LeafCalls \cup Groups \cup NestedGroups}
    \cup {Source(<<Text(<<"S", "\n", " ", " ", "W", " ", "\t">>), Action(CallExprMissing),
                   Text(<<" ", "\n", "\n", " ", "A", " ", " ">>), Action(CallValX),
                   Text(<<" ", "\r", "\n">>), Action(Fn("or", <<>>)),
                   Action(CallOptBetween), Text(<<"\n">>)>>)}

\* p.x as 0, true and an object with a member
FilledX == {JNum(0), JBool(TRUE), JObj(KeyX :> JNum(1))}

ParamsInputs ==
    {InvalidJSON} \cup {ValidJSON(d) : d \in Docs}
    \cup {ValidJSON(JObj(KeyP :> JObj(KeyX :> v))) : v \in FilledX}

Parse ==
    \E sqlTemplate \in Sources :
        LET r == ParseCall(engine, sqlTemplate) IN
        /\ engine' = r.engine
        /\ result' = r.result
        /\ UNCHANGED <<state, before, call, procs, dbsvc>>

\* Execute on the Engine as it is: e.template is nil before Parse and after
\* a Parse that failed
Execute ==
    /\ \E paramsJSON \in ParamsInputs : result' = ExecuteCall(engine, paramsJSON)
    /\ UNCHANGED <<engine, state, before, call, procs, dbsvc>>

Init ==
    /\ engine = NewEngine
    /\ result = NoResult
    /\ state = NewExecState(JObj(<<>>))
    /\ before = state
    /\ call = NoCall
    /\ procs = IdleProcs
    /\ dbsvc = NewDbService

Next == Parse \/ Execute

Spec == Init /\ [][Next]_vars

----------------------------------------------------------------------------
(* Execute called by several goroutines at the same time *)

\* Execute up to the call of template.Execute: the JSON check, the new
\* execState and the empty buffer
BeginExecute(paramsJSON) ==
    IF ~paramsJSON.valid
    THEN [IdleProc EXCEPT !.pc = "done", !.input = paramsJSON,
                          !.ret = [stmt |-> NilStmt, err |-> "invalid JSON"]]
    ELSE [IdleProc EXCEPT !.pc = "render", !.input = paramsJSON,
                          !.st = NewExecState(paramsJSON.doc), !.idx = 1]

\* the goroutine after one node: h is what rendering the node gave
NodeRendered(ps, g, h) ==
    IF h.fail
    THEN [ps EXCEPT ![g] = [ps[g] EXCEPT !.pc = "done",
                                         !.ret = [stmt |-> NilStmt,
                                                  err  |-> "template execute error"]]]
    ELSE [ps EXCEPT ![g] = [ps[g] EXCEPT !.st = h.st, !.buf = @ \o h.out, !.idx = @ + 1]]

\* Execute changed to render on one execState kept for the Engine (the
\* first goroutine's) instead of the caller's own
RenderStepSharedState(ps, g, e) ==
    LET p == ps[g]
        h == Render(<<e.template[p.idx]>>, ps[1].st)
    IN  IF h.fail
        THEN [ps EXCEPT ![g] = [p EXCEPT !.pc = "done",
                                         !.ret = [stmt |-> NilStmt,
                                                  err  |-> "template execute error"]]]
        ELSE [[ps EXCEPT ![g] = [p EXCEPT !.buf = @ \o h.out, !.idx = @ + 1]]
                 EXCEPT ![1].st = h.st]

\* template.Execute runs the next node of the Engine's template on the
\* goroutine's own state and buffer; an error ends Execute
RenderStep(ps, g, e) ==
    NodeRendered(ps, g, Render(<<e.template[ps[g].idx]>>, ps[g].st))

\* Execute after template.Execute: the SQLStmt built from the Engine's raw
\* text and the goroutine's buffer and state
ReturnStmt(p, e) ==
    [p EXCEPT !.pc = "done",
              !.ret = [stmt |-> [RawSQL |-> e.rawSQL,
                                 SQL |-> cleanSQL(p.buf),
                                 Args |-> p.st.args,
                                 Errors |-> p.st.errors,
                                 ValidatorsErrors |-> p.st.validatorsErrors],
                       err  |-> "nil"]]

\* the templates and documents of the concurrent callers
ConcSources ==
    {Source(<<Text(SelectWhere), Action(CallVRequiredZ), Action(CallExprMissing),
              Action(CallValX)>>),
     Source(<<Text(SelectWhere), Action(Fn("or", <<CallExprIn, CallOptBetween>>))>>),
     Source(<<Action(CallExprEq), Action(Fn("and", <<>>))>>)}

ConcInputs ==
    {InvalidJSON, ValidJSON(JObj(<<>>)),
     ValidJSON(JObj(KeyP :> JObj(KeyX :> NumArray(2)))),
     ValidJSON(JObj(KeyP :> JObj(KeyX :> JStr(<<"s">>))))}

\* the Engine is parsed once, before the goroutines start
ConcParse ==
    /\ ~engine.parsed
    /\ \E sqlTemplate \in ConcSources : engine' = ParseCall(engine, sqlTemplate).engine
    /\ UNCHANGED <<result, state, before, call, procs, dbsvc>>

Begin(g) ==
    /\ engine.parsed
    /\ procs[g].pc \in {"idle", "done"}
    /\ \E paramsJSON \in ConcInputs : procs' = [procs EXCEPT ![g] = BeginExecute(paramsJSON)]
    /\ UNCHANGED <<engine, result, state, before, call, dbsvc>>

\* history: overlapped records that another goroutine was in the middle of
\* its own rendering when this one rendered a node
RenderNode(g) ==
    /\ procs[g].pc = "render"
    /\ procs[g].idx <= Len(engine.template)
    /\ procs' = [RenderStep(procs, g, engine) EXCEPT
                    ![g].overlapped = @ \/ \E h \in Goroutines \ {g} :
                                              procs[h].pc = "render" /\ procs[h].idx > 1]
    /\ UNCHANGED <<engine, result, state, before, call, dbsvc>>

Return(g) ==
    /\ procs[g].pc = "render"
    /\ procs[g].idx > Len(engine.template)
    /\ procs' = [procs EXCEPT ![g] = ReturnStmt(procs[g], engine)]
    /\ UNCHANGED <<engine, result, state, before, call, dbsvc>>

NextConc ==
    \/ ConcParse
    \/ \E g \in Goroutines : Begin(g)
    \/ \E g \in Goroutines : RenderNode(g)
    \/ \E g \in Goroutines : Return(g)

SpecConc == Init /\ [][NextConc]_vars

----------------------------------------------------------------------------
(* biapi: BiRepo runs a stored template against a database.  Build makes   *)
(* a new Engine for every request; the statement Execute hands to the      *)
(* execution database is recorded in result.db.                            *)

\* biz.OpType*: 2xx write, 4xx read
OpTypeAdd    == 201
OpTypeUpdate == 202
OpTypeDel    == 203
OpTypeList   == 401
OpTypeDetail == 402
OpTypeCount  == 403

KeyParams == <<"p","a","r","a","m","s">>

\* vars.Params(p); vars.Sys(s); vars.Users(u); vars.JSON(): sjson.Set writes
\* each value, a nil one as null
VarsJSON(params, sys, users) ==
    ValidJSON(JObj(KeyParams :> params
                   @@ <<"s","y","s">> :> sys
                   @@ <<"u","s","e","r","s">> :> users))

PathParamsX == << KeyParams \o <<".">> \o KeyX >>
PathParamsZ == << KeyParams \o <<".">> \o <<"z">> >>

\* bi_template_data rows: Content, OpType (one with an OpType outside biz)
TplContents ==
    {Source(<<Text(SelectWhere), Action(Fn("expr", <<FieldA, OpEQ>> \o PathParamsX))>>),
     Source(<<Action(Fn("vRequired", Labels \o PathParamsZ)), Text(SelectWhere),
              Action(Fn("optExpr", <<FieldB, OpIN>> \o PathParamsX))>>),
     Source(<<Text(<<"D", " ", "W", " ">>),
              Action(Fn("expr", <<FieldA, OpBETWEEN>> \o PathParamsX))>>),
     Source(<<Text(SelectWhere), Action(Fn("vRequired", <<FieldNameF>>))>>),
     BadSource}

TplDatas ==
    [Content : TplContents,
     OpType  : {OpTypeAdd, OpTypeUpdate, OpTypeDel, OpTypeList, OpTypeDetail, OpTypeCount, 0}]

\* req.Params: an object with or without the member x
ReqParams == {JObj(<<>>)} \cup {JObj(KeyX :> v) : v \in XValues}

NilBuildResult == [OpType |-> 0, SQLStmt |-> NilStmt]

\* Build from the return of ExecuteWithVars on: x is what Execute returned
BuildReturn(tplData, x) ==
    IF x.err # "nil"
    THEN [err |-> x.err, buildResult |-> NilBuildResult]
    ELSE [err |-> "nil",
          buildResult |-> [OpType |-> tplData.OpType, SQLStmt |-> x.stmt]]

\* BiRepo.Build: find the template and its data, Parse the content on a new
\* Engine, Execute it with the request's variables
Build(found, tplData, params) ==
    IF ~found THEN [err |-> "record not found", buildResult |-> NilBuildResult]
    ELSE LET p == ParseCall(NewEngine, tplData.Content) IN
         IF p.result.err
         THEN [err |-> "parse error", buildResult |-> NilBuildResult]
         ELSE BuildReturn(tplData, ExecuteCall(p.engine, VarsJSON(params, JNull, JNull)))

NoDbCall == [fn |-> "none", sql |-> <<>>, args |-> <<>>]

\* BiRepo.Execute from the return of Build on: the switch over OpType and
\* the ExecuteResult; dbErr is whether the database reports an error
ExecuteBuilt(b, dbErr) ==
    IF b.err # "nil"
    THEN [op |-> "BiRepo.Execute", err |-> b.err, isNil |-> TRUE, db |-> NoDbCall]
    ELSE LET sql  == b.buildResult.SQLStmt.SQL
             args == b.buildResult.SQLStmt.Args
             db   == CASE b.buildResult.OpType \in {OpTypeList, OpTypeDetail, OpTypeCount} ->
                            [fn |-> "db.Raw", sql |-> sql, args |-> args]
                       [] b.buildResult.OpType \in {OpTypeAdd, OpTypeUpdate, OpTypeDel} ->
                            [fn |-> "db.Exec", sql |-> sql, args |-> args]
                       [] OTHER -> NoDbCall
         IN  IF db.fn # "none" /\ dbErr
             THEN [op |-> "BiRepo.Execute", err |-> "db error", isNil |-> TRUE, db |-> db,
                   BuildResult |-> b.buildResult]
             ELSE [op |-> "BiRepo.Execute", err |-> "nil", isNil |-> FALSE, db |-> db,
                   OpType |-> b.buildResult.OpType,
                   ValidatorsErrors |-> b.buildResult.SQLStmt.ValidatorsErrors,
                   Errors |-> <<>>,
                   BuildResult |-> b.buildResult]

BiBuild ==
    /\ \E found \in BOOLEAN, tplData \in TplDatas, params \in ReqParams :
           result' = [op |-> "BiRepo.Build"] @@ Build(found, tplData, params)
    /\ UNCHANGED <<engine, state, before, call, procs, dbsvc>>

BiExecute ==
    /\ \E found \in BOOLEAN, tplData \in TplDatas, params \in ReqParams, dbErr \in BOOLEAN :
           result' = ExecuteBuilt(Build(found, tplData, params), dbErr)
    /\ UNCHANGED <<engine, state, before, call, procs, dbsvc>>

NextBi == BiBuild \/ BiExecute

SpecBi == Init /\ [][NextBi]_vars

----------------------------------------------------------------------------
(* dbsvc: Boot called on one DbService by several goroutines.  A caller is *)
(* at pc "idle", "do" (in once.Do, about to load done), "lock" (in doSlow,  *)
(* waiting for the mutex), "slow" (holding the mutex), "return" (once.Do   *)
(* returned) or "done" (Boot returned ret).                                *)

\* the contexts Boot is called with, named by the configuration their kernel
\* holds for the service
Ctxs == {"sqlite", "no config", "invalid driver a", "invalid driver b"}

\* what boot returns for a context: nil, or the error of the first database
\* that does not register
boot(ctx) ==
    CASE ctx = "invalid driver a" -> "register db public.a"
      [] ctx = "invalid driver b" -> "register db public.b"
      [] OTHER -> "nil"

IdleCaller == [pc |-> "idle", ctx |-> "none", ret |-> "none"]

\* o.done.Load() changed to report that the Once has never run
OnceNeverDone(s) == FALSE

\* o.done.Load() # 0
OnceDone(s) == s.done

\* a goroutine calls s.Boot(ctx)
BootCall(g) ==
    /\ procs[g].pc \in {"idle", "done"}
    /\ dbsvc.calls < MaxBootCalls
    /\ \E ctx \in Ctxs : procs' = [procs EXCEPT ![g] = [pc |-> "do", ctx |-> ctx, ret |-> "none"]]
    /\ dbsvc' = [dbsvc EXCEPT !.calls = @ + 1]
    /\ UNCHANGED <<engine, result, state, before, call>>

\* once.Do: the fast path when done is set, doSlow otherwise
OnceDo(g) ==
    /\ procs[g].pc = "do"
    /\ procs' = [procs EXCEPT ![g].pc = IF OnceDone(dbsvc) THEN "return" ELSE "lock"]
    /\ UNCHANGED <<engine, result, state, before, call, dbsvc>>

\* doSlow: o.m.Lock()
OnceLock(g) ==
    /\ procs[g].pc = "lock"
    /\ dbsvc.m = 0
    /\ dbsvc' = [dbsvc EXCEPT !.m = g]
    /\ procs' = [procs EXCEPT ![g].pc = "slow"]
    /\ UNCHANGED <<engine, result, state, before, call>>

\* doSlow under the mutex: if done is still unset, s.bootErr = s.boot(ctx)
\* (boot starts with s.manager = mgorm.NewManager(), a new instance every
\* time) and done is set; then o.m.Unlock()
OnceSlow(g) ==
    /\ procs[g].pc = "slow"
    /\ dbsvc' = IF OnceDone(dbsvc) THEN [dbsvc EXCEPT !.m = 0]
                ELSE [dbsvc EXCEPT !.manager = dbsvc.inits + 1,
                                   !.inits = @ + 1,
                                   !.ctx = procs[g].ctx,
                                   !.bootErr = boot(procs[g].ctx),
                                   !.done = TRUE,
                                   !.m = 0]
    /\ procs' = [procs EXCEPT ![g].pc = "return"]
    /\ UNCHANGED <<engine, result, state, before, call>>

\* return s.bootErr
BootReturn(g) ==
    /\ procs[g].pc = "return"
    /\ procs' = [procs EXCEPT ![g].pc = "done", ![g].ret = dbsvc.bootErr]
    /\ UNCHANGED <<engine, result, state, before, call, dbsvc>>

InitBoot ==
    /\ engine = NewEngine
    /\ result = NoResult
    /\ state = NewExecState(JObj(<<>>))
    /\ before = state
    /\ call = NoCall
    /\ procs = [g \in Goroutines |-> IdleCaller]
    /\ dbsvc = NewDbService

NextBoot ==
    \/ \E g \in Goroutines : BootCall(g)
    \/ \E g \in Goroutines : OnceDo(g)
    \/ \E g \in Goroutines : OnceLock(g)
    \/ \E g \in Goroutines : OnceSlow(g)
    \/ \E g \in Goroutines : BootReturn(g)

SpecBoot == InitBoot /\ [][NextBoot]_vars

----------------------------------------------------------------------------
(* properties of the direct calls (SpecCalls) *)

IsInOp(op)      == ToUpper(TrimSpace(op)) \in {OpIN, OpNOTIN}
IsBetweenOp(op) == ToUpper(TrimSpace(op)) \in {OpBETWEEN, OpNOTBETWEEN}

\* the last call was expr/optExpr with field, operator and a value path
IsExprCall(fns) == call.fn \in fns /\ Len(call.args) >= 3
CallField  == call.args[1]
CallOp     == call.args[2]
\* what the value path of the last expr/optExpr call resolved to
Resolved   == getValueByPath(before, SubSeq(call.args, 3, Len(call.args)))

NewArgs    == SubSeq(state.args, Len(before.args) + 1, Len(state.args))
NewErrors  == SubSeq(state.errors, Len(before.errors) + 1, Len(state.errors))
KeepsOld   ==
    /\ Len(state.args) >= Len(before.args)
    /\ SubSeq(state.args, 1, Len(before.args)) = before.args
    /\ Len(state.errors) >= Len(before.errors)
    /\ SubSeq(state.errors, 1, Len(before.errors)) = before.errors

\* "?", "?, ?", "?, ?, ?", ...
RECURSIVE QuestionList(_)
QuestionList(n) ==
    IF n = 0 THEN <<>>
    ELSE IF n = 1 THEN <<"?">>
    ELSE QuestionList(n - 1) \o <<",", " ", "?">>

Contains(text, sub) ==
    \E i \in 0..(Len(text) - Len(sub)) : SubSeq(text, i + 1, i + Len(sub)) = sub

\* C5 as stated: a required expr on a missing path gives exactly one '?',
\* one nil argument and one diagnostic, for every operator, the IN and
\* BETWEEN families included.
C5_AsStated ==
    (IsExprCall({"expr"}) /\ ~Resolved.ok) =>
        /\ CountPlaceholders(call.ret) = 1
        /\ KeepsOld
        /\ NewArgs = <<GoNil>>
        /\ Len(NewErrors) = 1

\* C5 amended: a required expr on a missing path gives 'field op ?' (for the
\* IN family 'field op (?)', never more than one '?'), one nil argument and
\* one diagnostic for every operator outside the BETWEEN family; for BETWEEN
\* and NOT BETWEEN it gives the empty fragment, no argument and two
\* diagnostics (missing value, then not enough BETWEEN values).
C5_MissingRequired ==
    (IsExprCall({"expr"}) /\ ~Resolved.ok) =>
        /\ KeepsOld
        /\ IF IsBetweenOp(CallOp)
           THEN /\ call.ret = <<>>
                /\ NewArgs = <<>>
                /\ NewErrors = <<"expr: no values", "between: not enough values">>
           ELSE /\ CountPlaceholders(call.ret) = 1
                /\ call.ret = CallField \o <<" ">> \o CallOp \o
                      (IF IsInOp(CallOp) THEN <<" ", "(", "?", ")">> ELSE <<" ", "?">>)
                /\ NewArgs = <<GoNil>>
                /\ NewErrors = <<"expr: no values">>

C5_Witness ==
    /\ call.fn = "expr"
    /\ call.args = <<FieldA, OpIN>> \o PathPZ
    /\ call.ret = <<"a", " ", "I", "N", " ", "(", "?", ")">>
    /\ state.args = before.args \o <<GoNil>>

FewerThanTwo == ~(Resolved.ok /\ Resolved.val.t = "arr" /\ Len(Resolved.val.v) >= 2)

C7_AsStated ==
    (IsExprCall({"expr", "optExpr"}) /\ IsBetweenOp(CallOp) /\ FewerThanTwo) =>
        /\ call.ret = <<>>
        /\ state.args = before.args
        /\ Len(NewErrors) = 1

\* C7 amended: such a call gives the empty fragment and no argument; it
\* appends exactly one diagnostic, except that expr on an absent path
\* appends two (missing value, then BETWEEN) and optExpr on an empty array
\* appends none.
C7_BetweenTooFew ==
    (IsExprCall({"expr", "optExpr"}) /\ IsBetweenOp(CallOp) /\ FewerThanTwo) =>
        /\ call.ret = <<>>
        /\ state.args = before.args
        /\ KeepsOld
        /\ NewErrors =
             IF call.fn = "expr" /\ ~Resolved.ok
             THEN <<"expr: no values", "between: not enough values">>
             ELSE IF call.fn = "optExpr" /\ Resolved.ok /\ Resolved.val = GoSlice(<<>>)
             THEN <<>>
             ELSE <<"between: not enough values">>

C7_Witness ==
    /\ call.fn = "optExpr"
    /\ call.args = <<FieldA, OpNOTBETWEEN>> \o PathPX
    /\ Resolved.ok /\ Resolved.val = GoSlice(<< [t |-> "num", v |-> 1] >>)
    /\ call.ret = <<>>
    /\ Len(before.errors) = 1
    /\ state.errors = before.errors \o <<"between: not enough values">>

\* the conditions of the last and/or call (and takes funcName first)
CallConds == IF call.fn = "and" THEN Tail(call.args) ELSE call.args
CallLogic == IF call.fn = "and" THEN <<"a","n","d">> ELSE <<"o","r">>

\* the non-blank conditions, trimmed, in input order
RECURSIVE Surviving(_)
Surviving(conds) ==
    IF conds = <<>> THEN <<>>
    ELSE IF \A i \in DOMAIN conds[1] : conds[1][i] \in WhiteSpace
    THEN Surviving(Tail(conds))
    ELSE <<TrimSpace(conds[1])>> \o Surviving(Tail(conds))

\* f1 <logic> f2 <logic> ... built from the right
RECURSIVE Chain(_, _)
Chain(frags, logic) ==
    IF Len(frags) = 1 THEN frags[1]
    ELSE Chain(SubSeq(frags, 1, Len(frags) - 1), logic)
         \o <<" ">> \o logic \o <<" ">> \o frags[Len(frags)]

C9_AndLikeOr ==
    (call.fn = "and") =>
        /\ call.ret = andOrFunc(before, <<"a","n","d">>, call.args).ret
        /\ \A i \in DOMAIN call.args :
              TrimSpace(call.args[i]) # <<>> => Contains(call.ret, TrimSpace(call.args[i]))

ResolvedEmptySlice == Resolved.val.t \in SliceTags /\ Resolved.val.v = <<>>

\* the diagnostics a call appended, the missing-value one left out
WithoutMissingDiag(errs) == SelectSeq(errs, LAMBDA e : e # "expr: no values")

DocHasX(d) == KeyP \in DOMAIN d.v /\ KeyX \in DOMAIN d.v[KeyP].v
DocX(d)    == d.v[KeyP].v[KeyX]

Missing == [val |-> GoNil, ok |-> FALSE]

IsValidatorCall ==
    /\ call.fn \in {"vInt", "vFloat", "vRequired", "vStr", "vStrLen", "vArrLen", "vReg"}
    /\ ~call.err

\* where fieldName stands in the arguments of the last validator call
LabelsAt ==
    CASE call.fn \in {"vStrLen", "vArrLen"} -> 3
      [] call.fn = "vReg" -> 2
      [] OTHER -> 1

VFieldName == call.args[LabelsAt]
VCode      == call.args[LabelsAt + 1]
VMsg       == call.args[LabelsAt + 2]
VPaths     == SubSeq(call.args, LabelsAt + 3, Len(call.args))

\* the path of the last validator call exists in the document
VPathExists ==
    Join(VPaths, <<".">>) = KeyP \o <<".">> \o KeyX /\ DocHasX(before.data)

\* the ValidatorError a check of the given type owes for the last call
Rejection(typ) ==
    [Type |-> typ, FieldName |-> VFieldName, Code |-> VCode, Msg |-> VMsg,
     Paths |-> Join(VPaths, <<".">>)]

\* C13: the required validator appends nothing when the path exists,
\* whatever the value there (null, "", [], false, ..), and exactly one
\* ValidatorError of type "required" when the path is absent; it returns the
\* empty fragment and touches neither args nor errors.
C13_Required ==
    call.fn = "vRequired" =>
        /\ call.ret = <<>>
        /\ state.args = before.args
        /\ state.errors = before.errors
        /\ state.validatorsErrors =
               IF VPathExists THEN before.validatorsErrors
               ELSE Append(before.validatorsErrors, Rejection("required"))

\* required on {"p": {"x": null}}: nothing is appended
C13_Witness ==
    /\ call.fn = "vRequired"
    /\ VPaths = PathP_X
    /\ DocHasX(before.data) /\ DocX(before.data) = JNull
    /\ Len(before.validatorsErrors) = 1
    /\ state = before

\* the type each check reports, the float check aside
CheckType ==
    CASE call.fn = "vRequired" -> "required"
      [] call.fn = "vStr"      -> "str"
      [] call.fn = "vInt"      -> "int"
      [] call.fn = "vStrLen"   -> "strLen"
      [] call.fn = "vArrLen"   -> "arrLen"
      [] call.fn = "vReg"      -> "reg"

\* C15: a validator call appends nothing (it passed) or exactly one
\* ValidatorError carrying its fieldName, code and msg and its path segments
\* joined by '.', of the type of its check, and no two checks share a type:
\* the float check reports a type none of the other six reports.
C15_OneErrorOfOwnType ==
    IsValidatorCall =>
        \/ state.validatorsErrors = before.validatorsErrors
        \/ /\ Len(state.validatorsErrors) = Len(before.validatorsErrors) + 1
            /\ LET e == state.validatorsErrors[Len(state.validatorsErrors)] IN
               IF call.fn = "vFloat"
               THEN /\ e.Type \notin {"required", "str", "int", "strLen", "arrLen", "reg"}
                    /\ e = Rejection(e.Type)
               ELSE e = Rejection(CheckType)
            /\ SubSeq(state.validatorsErrors, 1, Len(before.validatorsErrors))
                   = before.validatorsErrors

\* C24 as stated: expr or optExpr called with one or two arguments (the
\* field, or the field and the operator) returns 'field op ?' and appends
\* exactly one nil argument, whatever the operator, and appends one
\* diagnostic when it is expr and none when it is optExpr.
C24_TooFewArguments ==
    (call.fn \in {"expr", "optExpr"} /\ Len(call.args) \in {1, 2}) =>
        LET field == call.args[1]
            op    == IF Len(call.args) > 1 THEN call.args[2] ELSE <<>>
        IN  /\ call.ret = field \o <<" ">> \o op \o <<" ", "?">>
            /\ state.args = Append(before.args, GoNil)
            /\ state.errors = before.errors
                                \o (IF call.fn = "expr" THEN <<"expr: no values">> ELSE <<>>)

\* C25 as stated: expr or optExpr with BETWEEN or NOT BETWEEN emits a
\* fragment only for a resolved value of exactly 2 elements, and then the
\* fragment is 'field op ? AND ?' and exactly those two elements are bound,
\* in order.
C25_BetweenExactlyTwo ==
    (/\ call.fn \in {"expr", "optExpr"}
     /\ Len(call.args) >= 3
     /\ IsBetweenOp(call.args[2])
     /\ call.ret # <<>>) =>
        LET r == getValueByPath(before, SubSeq(call.args, 3, Len(call.args)))
        IN  /\ r.ok
            /\ r.val.t = "arr"
            /\ Len(r.val.v) = 2
            /\ call.ret = call.args[1] \o <<" ">> \o call.args[2]
                            \o <<" ", "?", " ", "A", "N", "D", " ", "?">>
            /\ state.args = before.args \o r.val.v
            /\ state.errors = before.errors

C27_AbsentPathPasses ==
    /\ (/\ call.fn \in {"vInt", "vFloat", "vStr", "vStrLen", "vArrLen", "vReg"}
        /\ ~VPathExists) =>
           /\ ~call.err
           /\ call.ret = <<>>
           /\ state = before
    /\ (call.fn = "vRequired" /\ ~VPathExists) =>
           state.validatorsErrors = Append(before.validatorsErrors, Rejection("required"))

\* the regex validator with the pattern "(" on p.z, which {"p": {"x": "s"}}
\* does not have: no panic and nothing appended
C27_Witness ==
    /\ call.fn = "vReg"
    /\ ~call.err
    /\ call.args[1] = BadPattern
    /\ VPaths = PathPZ
    /\ before.data = JObj(KeyP :> JObj(KeyX :> JStr(<<"s">>)))
    /\ state = before

----------------------------------------------------------------------------
(* properties of Execute (Spec) *)

Executed   == result.op = "Execute"
ExecutedOK == Executed /\ result.err = "nil"

\* C1: the SQL of a returned SQLStmt has exactly as many '?' as Args has
\* entries.
C1_PlaceholdersMatchArgs ==
    ExecutedOK => CountPlaceholders(result.stmt.SQL) = Len(result.stmt.Args)

\* C2: Args is in placeholder order: the k-th '?' of the rendered text was
\* emitted by the call that appended the k-th entry of Args.
C2_ArgsInPlaceholderOrder ==
    ExecutedOK => result.ph = [k \in 1..Len(result.stmt.Args) |-> k]

\* C3: Execute on text that is not valid JSON returns an error and no
\* SQLStmt, without running the template (so nothing is resolved or
\* recorded).
C3_InvalidJSON ==
    (Executed /\ ~result.input.valid) =>
        /\ result.err = "invalid JSON"
        /\ result.stmt = NilStmt
        /\ ~result.rendered

C3_Witness ==
    /\ Executed
    /\ ~result.input.valid
    /\ engine.rawSQL = Source(<<Text(SelectWhere), Action(CallValX)>>)
    /\ result.stmt = NilStmt

\* a call of the template is given fewer arguments than its function takes
MinArgs(f) ==
    CASE f = "and" -> 1
      [] f \in {"vInt", "vFloat", "vStr", "vRequired"} -> 3
      [] f = "vReg" -> 4
      [] OTHER -> 0

RECURSIVE TooFewArgs(_)
TooFewArgs(c) ==
    /\ c.f # "lit"
    /\ \/ Len(c.a) < MinArgs(c.f)
       \/ c.f \in {"and", "or"} /\ \E i \in DOMAIN c.a : TooFewArgs(c.a[i])

\* a regex validator of the call is given a pattern that does not compile
\* and a path that holds a string in the document
RECURSIVE RegexPanics(_, _)
RegexPanics(c, doc) ==
    \/ /\ c.f = "vReg"
       /\ Len(c.a) >= 4
       /\ ~Compiles(c.a[1])
       /\ Get(doc, SplitDots(Join(SubSeq(c.a, 5, Len(c.a)), <<".">>))).res.t = "str"
    \/ c.f \in {"and", "or"} /\ \E i \in DOMAIN c.a : RegexPanics(c.a[i], doc)

\* some action of the template satisfies P
SomeAction(nodes, P(_)) ==
    \E i \in DOMAIN nodes : nodes[i].k = "action" /\ P(nodes[i].v)

\* the diagnostics of each node of the template rendered on its own against
\* the document, one node after the other
DiagnosticsInOrder(nodes, doc) ==
    Join([i \in DOMAIN nodes |-> Render(<<nodes[i]>>, NewExecState(doc)).st.errors], <<>>)

\* C4: for valid JSON diagnostics never abort the call: Execute fails only
\* for a call with too few arguments or a regex pattern that does not
\* compile, and otherwise returns an SQLStmt whose Errors holds every
\* diagnostic in the order it occurred.
C4_DiagnosticsDoNotAbort ==
    (Executed /\ result.input.valid) =>
        /\ (result.err # "nil") <=>
               \/ SomeAction(engine.template, TooFewArgs)
               \/ SomeAction(engine.template, LAMBDA c : RegexPanics(c, result.input.doc))
        /\ result.err = "nil" =>
               /\ result.stmt # NilStmt
               /\ result.stmt.Errors = DiagnosticsInOrder(engine.template, result.input.doc)

C4_Witness ==
    /\ ExecutedOK
    /\ result.input.valid
    /\ result.stmt.Errors = <<"expr: no values", "and: no valid conditions",
                              "between: not enough values">>
    /\ result.stmt.SQL = <<"S", " ", "W", " ", "\t", "b", " ", "L", "I", "K", "E", " ", "?",
                           " ", "A", " ", "?">>
    /\ Len(result.stmt.Args) = 2

\* the call is one of the validators Parse registers
IsValidator(c) == c.f \in {"vInt", "vFloat", "vStr", "vReg", "vRequired"}

\* a call with the validator calls among its arguments taken out
RECURSIVE StripCall(_)
StripCall(c) ==
    IF c.f \in {"and", "or"}
    THEN LET kept == SelectSeq(c.a, LAMBDA x : ~IsValidator(x))
         IN  [f |-> c.f, a |-> [i \in DOMAIN kept |-> StripCall(kept[i])]]
    ELSE c

\* the template with every validator call taken out
WithoutValidators(nodes) ==
    LET kept == SelectSeq(nodes, LAMBDA n : ~(n.k = "action" /\ IsValidator(n.v)))
    IN  [i \in DOMAIN kept |->
            IF kept[i].k = "action" THEN Action(StripCall(kept[i].v)) ELSE kept[i]]

\* what each validator call of a call appends when evaluated on its own
\* against the document, in the order the calls are evaluated
RECURSIVE Rejections(_, _)
Rejections(c, doc) ==
    IF IsValidator(c) THEN EvalCall(c, NewExecState(doc)).st.validatorsErrors
    ELSE IF c.f \in {"and", "or"}
    THEN Join([i \in DOMAIN c.a |-> Rejections(c.a[i], doc)], <<>>)
    ELSE <<>>

RejectionsInOrder(nodes, doc) ==
    Join([i \in DOMAIN nodes |->
            IF nodes[i].k = "action" THEN Rejections(nodes[i].v, doc) ELSE <<>>], <<>>)

\* C14 as stated: validator calls change neither whether Execute succeeds
\* nor the SQL, Args and Errors it returns: the template with its validator
\* calls taken out gives the same outcome on the same document.
C14_ValidatorsLeaveSQLAlone ==
    (Executed /\ result.input.valid) =>
        LET bare == ExecuteCall([engine EXCEPT !.template = WithoutValidators(@)],
                                result.input)
        IN  /\ (result.err = "nil") <=> (bare.err = "nil")
            /\ result.err = "nil" =>
                   /\ result.stmt.SQL = bare.stmt.SQL
                   /\ result.stmt.Args = bare.stmt.Args
                   /\ result.stmt.Errors = bare.stmt.Errors

\* C16: validators accumulate: ValidatorsErrors holds one entry for each
\* validator call that fails, in template order, and the SQL, Args and
\* Errors are those of the template without its validator calls: a failing
\* validator suppresses nothing that comes after it.
C16_ValidatorsAccumulate ==
    ExecutedOK =>
        LET doc  == result.input.doc
            bare == Render(WithoutValidators(engine.template), NewExecState(doc))
        IN  /\ result.stmt.ValidatorsErrors = RejectionsInOrder(engine.template, doc)
            /\ result.stmt.SQL = cleanSQL(bare.out)
            /\ result.stmt.Args = bare.st.args
            /\ result.stmt.Errors = bare.st.errors

\* four failing validators between two fragments: four errors in template
\* order, both fragments and both arguments
C16_Witness ==
    /\ ExecutedOK
    /\ result.input = ValidJSON(JObj(KeyP :> JObj(KeyX :> JBool(FALSE))))
    /\ Len(result.stmt.ValidatorsErrors) = 4
    /\ [i \in 1..4 |-> result.stmt.ValidatorsErrors[i].Type]
           = <<"required", "str", "int", "int">>
    /\ [i \in 1..4 |-> result.stmt.ValidatorsErrors[i].FieldName]
           = <<FieldNameF, FieldNameF, FieldA, FieldB>>
    /\ result.stmt.SQL = <<"S", " ", "W", " ", "a", " ", "=", " ", "?", " ", "A", " ", "?">>
    /\ result.stmt.Args = <<JBool(FALSE), JBool(FALSE)>>

\* C18: every Execute starts from an empty execState: whatever was called
\* on the Engine before, the Args, Errors and ValidatorsErrors of the
\* returned SQLStmt are those of rendering the template once on a new state,
\* and the SQLStmt is the one a newly parsed Engine returns for the same
\* template text and JSON.
C18_FreshState ==
    ExecutedOK =>
        LET alone == Render(engine.template, NewExecState(result.input.doc))
            fresh == ExecuteCall(ParseCall(NewEngine, engine.rawSQL).engine, result.input)
        IN  /\ result.stmt.Args = alone.st.args
            /\ result.stmt.Errors = alone.st.errors
            /\ result.stmt.ValidatorsErrors = alone.st.validatorsErrors
            /\ result.stmt = fresh.stmt

\* an Execute after an Execute that returned validator errors, on a
\* template that binds two arguments and records a diagnostic and a
\* validator error
C18_Witness ==
    /\ ExecutedOK
    /\ result.leftover
    /\ result.input = ValidJSON(JObj(<<>>))
    /\ result.stmt.Args = <<GoNil, GoNil>>
    /\ result.stmt.Errors = <<"expr: no values">>
    /\ Len(result.stmt.ValidatorsErrors) = 1

\* a call names a function Parse does not register
RECURSIVE CallsUnregistered(_)
CallsUnregistered(c) ==
    /\ c.f # "lit"
    /\ \/ c.f \notin FuncMap
       \/ c.f \in {"and", "or"} /\ \E i \in DOMAIN c.a : CallsUnregistered(c.a[i])

\* C20 as stated: Parse returns an error exactly for a template with a
\* syntax error, a call of a function outside the vocabulary, or a call with
\* the wrong number of arguments.
C20_AsStated ==
    result.op = "Parse" =>
        (result.err <=>
            \/ ~engine.rawSQL.ok
            \/ SomeAction(engine.rawSQL.nodes, CallsUnregistered)
            \/ SomeAction(engine.rawSQL.nodes, TooFewArgs))

\* C20: Parse returns an error exactly for a template with a syntax error or
\* a call of a function it does not register, so no template that Execute
\* runs has either; a call with too few arguments is accepted by Parse and
\* makes Execute return an error on every valid JSON document.
C20_ParseErrors ==
    /\ result.op = "Parse" =>
           (result.err <=>
               \/ ~engine.rawSQL.ok
               \/ SomeAction(engine.rawSQL.nodes, CallsUnregistered))
    /\ (Executed /\ result.rendered) =>
           /\ engine.rawSQL.ok
           /\ ~SomeAction(engine.template, CallsUnregistered)
    /\ (Executed /\ result.input.valid /\ SomeAction(engine.template, TooFewArgs)) =>
           /\ result.err = "template execute error"
           /\ result.stmt = NilStmt

\* Parse accepted {vRequired . "f"}; Execute on {} fails
C20_Witness ==
    /\ Executed
    /\ result.input = ValidJSON(JObj(<<>>))
    /\ engine.template = <<Text(SelectWhere), Action(Fn("vRequired", <<FieldNameF>>))>>
    /\ result.err = "template execute error"
    /\ result.stmt = NilStmt

\* the document has a value at the path that is not null, "", [], {} or
\* false
Filled(doc, path) ==
    LET r == Get(doc, SplitDots(path))
    IN  r.exists /\ r.res \notin {JNull, JStr(<<>>), JArr(<<>>), JObj(<<>>), JBool(FALSE)}

\* the template with every {if not (isEmpty (getValue . path))} replaced by
\* its body when the document has a filled value at path, and by nothing
\* otherwise
RECURSIVE Unfolded(_, _)
Unfolded(nodes, doc) ==
    IF nodes = <<>> THEN <<>>
    ELSE LET n == Head(nodes) IN
         (IF n.k # "if" THEN <<n>>
          ELSE IF Filled(doc, Join(n.v.c.a[1].a[1].a, <<".">>)) THEN n.v.body
          ELSE <<>>)
         \o Unfolded(Tail(nodes), doc)

HasIf(nodes) == \E i \in DOMAIN nodes : nodes[i].k = "if"

\* C22: a fragment guarded by {if not (isEmpty (getValue . path))} is
\* rendered exactly when the value at path exists and is not null, "", [],
\* {} or false; when it is not rendered its calls contribute no SQL text, no
\* argument and no diagnostic: the SQLStmt is that of the template with the
\* guarded fragment put in place of the {if}, or left out.
C22_Pruning ==
    (ExecutedOK /\ HasIf(engine.template)) =>
        LET flat == Render(Unfolded(engine.template, result.input.doc),
                           NewExecState(result.input.doc))
        IN  /\ result.stmt.SQL = cleanSQL(flat.out)
            /\ result.stmt.Args = flat.st.args
            /\ result.stmt.Errors = flat.st.errors
            /\ result.stmt.ValidatorsErrors = flat.st.validatorsErrors

\* p.x is false: the guarded expr and val are left out, with the diagnostic
\* of the expr, and the condition after the {end} binds false
C22_Witness ==
    /\ ExecutedOK
    /\ HasIf(engine.template)
    /\ result.input = ValidJSON(JObj(KeyP :> JObj(KeyX :> JBool(FALSE))))
    /\ result.stmt.SQL = <<"S", " ", "W", " ", "b", " ", "I", "N", " ", "(", "?", ")">>
    /\ result.stmt.Args = <<JBool(FALSE)>>
    /\ result.stmt.Errors = <<>>

\* C29: a compile error blocks the template: after a Parse that returned an
\* error the Engine holds no template, and no Execute returns an SQLStmt
\* until a later Parse succeeds, whether or not an earlier Parse had
\* succeeded; an SQLStmt that Execute returns is rendered from the text of
\* the last Parse, never from an earlier or a partly compiled one.
C29_FailedParseBlocks ==
    /\ (result.op = "Parse" /\ result.err) => engine.template = <<>>
    /\ (result.op \in {"Execute", "Execute panicked"} /\ ~Parses(engine.rawSQL)) =>
           /\ result.stmt = NilStmt
           /\ result.err # "nil"
    /\ ExecutedOK =>
           /\ Parses(engine.rawSQL)
           /\ result.stmt.RawSQL = engine.rawSQL
           /\ result.stmt.SQL
                  = cleanSQL(Render(engine.rawSQL.nodes, NewExecState(result.input.doc)).out)

\* Execute with valid JSON right after a Parse of "{" that replaced a
\* compiled template
C29_Witness ==
    /\ result.op = "Execute panicked"
    /\ result.hadTemplate
    /\ engine.rawSQL = BadSource
    /\ result.input = ValidJSON(JObj(KeyP :> JObj(KeyX :> JNum(5))))
    /\ result.stmt = NilStmt

\* '(' minus ')' among the first i characters
Depth(text, i) ==
    Cardinality({j \in 1..i : text[j] = "("}) - Cardinality({j \in 1..i : text[j] = ")"})

\* the whole text is one parenthesised group: it opens with '(' and that
\* parenthesis is closed by the last character
Enclosed(text) ==
    /\ Len(text) >= 2
    /\ text[1] = "(" /\ text[Len(text)] = ")"
    /\ Depth(text, Len(text)) = 0
    /\ \A i \in 1..(Len(text) - 1) : Depth(text, i) >= 1

\* no blank condition was joined in: no empty group, nothing missing after
\* '(' or before ')', and no two separators in a row
NoBlankJoined(text) ==
    /\ ~Contains(text, <<"(", ")">>)
    /\ ~Contains(text, <<"(", " ">>)
    /\ ~Contains(text, <<" ", ")">>)
    /\ ~Contains(text, <<" ", " ">>)

\* the template is a text followed by one and/or call
IsGroupTemplate ==
    /\ Len(engine.template) = 2
    /\ engine.template[2].k = "action"
    /\ engine.template[2].v.f \in {"and", "or"}

\* how deep and/or calls are nested in a call
RECURSIVE Nesting(_)
Nesting(c) ==
    IF c.f \notin {"and", "or"} THEN 0
    ELSE 1 + (IF c.a = <<>> THEN 0
              ELSE CHOOSE n \in {Nesting(c.a[i]) : i \in DOMAIN c.a} :
                       \A i \in DOMAIN c.a : Nesting(c.a[i]) <= n)

----------------------------------------------------------------------------
(* properties of cleanSQL (SpecClean) *)

\* C17: cleanSQL is idempotent: cleaning a cleaned text changes nothing,
\* whatever blank lines, tabs, carriage returns and runs of spaces the
\* original had.
C17_Idempotent ==
    call.fn = "cleanSQL" => cleanSQL(call.ret) = call.ret

\* three spaces in a row need two replacement passes
C17_Witness ==
    /\ call.fn = "cleanSQL"
    /\ call.args = << <<"a", " ", " ", " ", "a">> >>
    /\ call.ret = <<"a", " ", "a">>

\* the characters of s that are not white space, in order
NonSpace(s) == SelectSeq(s, LAMBDA c : c \notin WhiteSpace)

\* the tokens of s: its longest runs of characters that are not white space
RECURSIVE Tokens(_)
Tokens(s) ==
    IF s = <<>> THEN <<>>
    ELSE IF Head(s) \in WhiteSpace THEN Tokens(Tail(s))
    ELSE LET n == CHOOSE k \in 1..Len(s) :
                      /\ \A j \in 1..k : s[j] \notin WhiteSpace
                      /\ k = Len(s) \/ s[k + 1] \in WhiteSpace
         IN  <<SubSeq(s, 1, n)>> \o Tokens(SubSeq(s, n + 1, Len(s)))

\* C30: cleanSQL only removes or replaces white space: the characters
\* that are not white space are the same in the output as in the input,
\* in the same order, so the '?' placeholders keep their number and order,
\* and the tokens are the same: no two tokens are joined.
C30_OnlyWhiteSpace ==
    call.fn = "cleanSQL" =>
        /\ NonSpace(call.ret) = NonSpace(call.args[1])
        /\ Tokens(call.ret) = Tokens(call.args[1])

\* a line break between two tokens became a space, the tab inside the
\* second line stayed
C30_Witness ==
    /\ call.fn = "cleanSQL"
    /\ call.args = << <<"?", "\n", "a", "\t", "?">> >>
    /\ call.ret = <<"?", " ", "a", "\t", "?">>

----------------------------------------------------------------------------
(* properties of concurrent Execute calls (SpecConc) *)

----------------------------------------------------------------------------
(* properties of BiRepo (SpecBi) *)

\* C21: BiRepo.Execute issues db.Raw or db.Exec only with the SQL and Args
\* of an SQLStmt that has neither Errors nor ValidatorsErrors
C21_ChecksDiagnostics ==
    (result.op = "BiRepo.Execute" /\ result.db.fn \in {"db.Raw", "db.Exec"}) =>
        /\ result.db.sql = result.BuildResult.SQLStmt.SQL
        /\ result.db.args = result.BuildResult.SQLStmt.Args
        /\ result.BuildResult.SQLStmt.Errors = <<>>
        /\ result.BuildResult.SQLStmt.ValidatorsErrors = <<>>

----------------------------------------------------------------------------
(* properties of DbService.Boot (SpecBoot) *)

====
